---- MODULE Spec2Model ----
(***************************************************************************)
(* Model of the similarity-matching engine of cobot: the TF-IDF vocabulary *)
(* builder (internal/nlp), the vector index (internal/db), the binary      *)
(* codec (internal/io) and the cache manager ActionDB.CacheInit            *)
(* (internal/agent) on top of the git-backed Storage.                      *)
(*                                                                         *)
(* Text is a sequence of bytes (ASCII codes).  A float64 is modelled by an *)
(* exact rational <<num, den>> in lowest terms; its 8-byte encoding is the *)
(* 4 little-endian bytes of num followed by the 4 bytes of den.  Files are *)
(* byte sequences; NoFile stands for a path that does not exist.           *)
(***************************************************************************)
EXTENDS Integers, Sequences, FiniteSets, TLC

\* ------------------------------------------------------------- bounds
MaxCommits == 1
MaxEdits == 2
MaxFaults == 1
MaxStreamOps == 3
MaxRebuilds == 1
MaxTextLen == 3

\* ------------------------------------------------------------- bytes and text
SPACE == 32

\* a path that does not exist: no byte sequence holds -1
NoFile == <<-1>>
\* Go's nil pointer
Nil == [nil |-> TRUE]

Min(a, b) == IF a <= b THEN a ELSE b


\* strings.ToLower on ASCII text
ToLowerByte(c) == IF c >= 65 /\ c <= 90 THEN c + 32 ELSE c
ToLower(s) == [i \in 1..Len(s) |-> ToLowerByte(s[i])]

\* bytewise string order, as sort.Strings uses it
RECURSIVE StrLess(_, _)
StrLess(a, b) ==
  IF b = <<>> THEN FALSE
  ELSE IF a = <<>> THEN TRUE
  ELSE IF Head(a) # Head(b) THEN Head(a) < Head(b)
  ELSE StrLess(Tail(a), Tail(b))

\* the keys of a set in descending order
RECURSIVE SortStringsDescending(_)
SortStringsDescending(S) ==
  IF S = {} THEN <<>>
  ELSE LET m == CHOOSE x \in S : \A y \in S \ {x} : StrLess(y, x)
       IN <<m>> \o SortStringsDescending(S \ {m})

\* sort.Strings over the keys of a set
RECURSIVE SortStrings(_)
SortStrings(S) ==
  IF S = {} THEN <<>>
  ELSE LET m == CHOOSE x \in S : \A y \in S \ {x} : StrLess(x, y)
       IN <<m>> \o SortStrings(S \ {m})

HasPrefixAt(s, t, i) ==
  /\ i + Len(t) - 1 <= Len(s)
  /\ \A k \in 1..Len(t) : s[i + k - 1] = t[k]

\* strings.Contains
Contains(s, t) == \E i \in 1..(Len(s) + 1) : HasPrefixAt(s, t, i)

\* strings.Count: non-overlapping occurrences; Count(s, "") is len(s)+1
RECURSIVE CountFrom(_, _, _)
CountFrom(s, t, i) ==
  IF i + Len(t) - 1 > Len(s) THEN 0
  ELSE IF HasPrefixAt(s, t, i) THEN 1 + CountFrom(s, t, i + Len(t))
  ELSE CountFrom(s, t, i + 1)

Count(s, t) == IF t = <<>> THEN Len(s) + 1 ELSE CountFrom(s, t, 1)

\* strings.Fields: maximal runs of non-space bytes
RECURSIVE FieldsFrom(_, _, _)
FieldsFrom(s, i, cur) ==
  IF i > Len(s) THEN (IF cur = <<>> THEN <<>> ELSE <<cur>>)
  ELSE IF s[i] = SPACE
       THEN (IF cur = <<>> THEN <<>> ELSE <<cur>>) \o FieldsFrom(s, i + 1, <<>>)
       ELSE FieldsFrom(s, i + 1, Append(cur, s[i]))

Fields(s) == FieldsFrom(s, 1, <<>>)

\* strings.Join(tokens, sep)
RECURSIVE Join(_, _)
Join(ss, sep) ==
  IF ss = <<>> THEN <<>>
  ELSE IF Len(ss) = 1 THEN ss[1]
  ELSE ss[1] \o sep \o Join(Tail(ss), sep)

\* ------------------------------------------------------------- float64 as exact rationals
RECURSIVE GCD(_, _)
GCD(a, b) == IF b = 0 THEN a ELSE GCD(b, a % b)

Rat(n, d) == LET g == GCD(n, d) IN IF g = 0 THEN <<0, 1>> ELSE <<n \div g, d \div g>>

RZero == <<0, 1>>
RMul(a, b) == Rat(a[1] * b[1], a[2] * b[2])
RAdd(a, b) == Rat(a[1] * b[2] + b[1] * a[2], a[2] * b[2])
RLeq(a, b) == a[1] * b[2] <= b[1] * a[2]

\* ------------------------------------------------------------- binary codec
\* binary.Write(file, binary.LittleEndian, int32): 4 bytes, least significant first
Int32Bytes(n) ==
  << n % 256, (n \div 256) % 256, (n \div 65536) % 256, (n \div 16777216) % 256 >>

\* the int32 held by 4 big-endian bytes (two's complement)
Int32OfBigEndian(b) ==
  b[4] + 256 * b[3] + 65536 * b[2]
    + 16777216 * (IF b[1] >= 128 THEN b[1] - 256 ELSE b[1])

\* the int32 held by 4 little-endian bytes (two's complement)
Int32Of(b) ==
  b[1] + 256 * b[2] + 65536 * b[3]
    + 16777216 * (IF b[4] >= 128 THEN b[4] - 256 ELSE b[4])

WriteInt32(i) == Int32Bytes(i)
WriteFloat64(f) == Int32Bytes(f[1]) \o Int32Bytes(f[2])
WriteString(s) == s

\* binary.Read of a fixed-size value: io.ReadFull, which fails on a short read
\* and leaves the offset at the end of the file.
ReadInt32(f, p) ==
  IF p + 4 <= Len(f)
  THEN [ok |-> TRUE, v |-> Int32Of(SubSeq(f, p + 1, p + 4)), pos |-> p + 4]
  ELSE [ok |-> FALSE, v |-> 0, pos |-> Len(f)]

ReadFloat64(f, p) ==
  IF p + 8 <= Len(f)
  THEN [ok |-> TRUE,
        v |-> <<Int32Of(SubSeq(f, p + 1, p + 4)), Int32Of(SubSeq(f, p + 5, p + 8))>>,
        pos |-> p + 8]
  ELSE [ok |-> FALSE, v |-> RZero, pos |-> Len(f)]

\* file.Read(buf) with len(buf) = n: a zero-length read succeeds, a read at the
\* end of the file fails, and a short read succeeds and leaves the rest of the
\* buffer zero.
Read(f, p, n) ==
  IF n = 0 THEN [ok |-> TRUE, v |-> <<>>, pos |-> p]
  ELSE IF p >= Len(f) THEN [ok |-> FALSE, v |-> [i \in 1..n |-> 0], pos |-> p]
  ELSE LET k == Min(n, Len(f) - p)
       IN [ok |-> TRUE,
           v |-> [i \in 1..n |-> IF i <= k THEN f[p + i] ELSE 0],
           pos |-> p + k]

\* ------------------------------------------------------------- CRC-32 (IEEE)
\* The 32-bit register is the set of the positions of its one bits (bit 0 the
\* least significant); Poly is the reversed polynomial 0xEDB88320.
Poly == {5, 8, 9, 15, 19, 20, 21, 23, 24, 26, 27, 29, 30, 31}

Xor(a, b) == (a \ b) \cup (b \ a)

Bits(b) == {i \in 0..7 : (b \div 2^i) % 2 = 1}

\* one step of the bitwise algorithm: shift right, xor Poly if a one fell out
CrcShift(c) ==
  LET shifted == {i - 1 : i \in c \ {0}}
  IN IF 0 \in c THEN Xor(shifted, Poly) ELSE shifted

\* the register after one more byte b: a function of the two values
CrcByte ==
  [c \in SUBSET (0..31), b \in 0..255 |->
     CrcShift(CrcShift(CrcShift(CrcShift(CrcShift(CrcShift(CrcShift(CrcShift(
       Xor(c, Bits(b))))))))))]

\* the register after the bytes of s, starting from c
RECURSIVE CrcUpdate(_, _)
CrcUpdate(c, s) ==
  IF s = <<>> THEN c
  ELSE CrcByte[CrcUpdate(c, SubSeq(s, 1, Len(s) - 1)), s[Len(s)]]

\* the byte whose bit i is one exactly when from + i is in c
ByteOf(c, from) ==
  LET bit(i) == IF from + i \in c THEN 2^i ELSE 0
  IN bit(0) + bit(1) + bit(2) + bit(3) + bit(4) + bit(5) + bit(6) + bit(7)

\* An int64 is the tuple of its four 16-bit limbs, least significant first:
\* l[1] + 2^16 l[2] + 2^32 l[3] + 2^48 l[4], with l[1..3] in 0..65535 and the
\* top limb signed, in -32768..32767.

\* int64(crc32.ChecksumIEEE(data)): the unsigned 32-bit checksum, widened
ChecksumIEEE(data) ==
  LET c == (0..31) \ CrcUpdate(0..31, data)
  IN << ByteOf(c, 0) + 256 * ByteOf(c, 8), ByteOf(c, 16) + 256 * ByteOf(c, 24), 0, 0 >>

\* binary.Write(file, binary.LittleEndian, int64): 8 bytes, least significant first
WriteInt64(i) ==
  << i[1] % 256, i[1] \div 256, i[2] % 256, i[2] \div 256,
     i[3] % 256, i[3] \div 256, i[4] % 256, (i[4] \div 256) % 256 >>

\* the int64 held by 8 little-endian bytes (two's complement)
Int64Of(b) ==
  << b[1] + 256 * b[2], b[3] + 256 * b[4], b[5] + 256 * b[6],
     b[7] + 256 * (IF b[8] >= 128 THEN b[8] - 256 ELSE b[8]) >>

ReadInt64(f, p) ==
  IF p + 8 <= Len(f)
  THEN [ok |-> TRUE, v |-> Int64Of(SubSeq(f, p + 1, p + 8)), pos |-> p + 8]
  ELSE [ok |-> FALSE, v |-> <<0, 0, 0, 0>>, pos |-> Len(f)]

\* ------------------------------------------------------------- tokenizer
Vowels == {97, 101, 105, 111, 117, 121}

\* strings.HasSuffix, and s without its last n bytes
HasSuffix(s, suffix) ==
  Len(s) >= Len(suffix) /\ SubSeq(s, Len(s) - Len(suffix) + 1, Len(s)) = suffix
DropLast(s, n) == SubSeq(s, 1, Len(s) - n)

\* the stop words among the words of the bounded sets: "the", "down"
StopWords == {<<116, 104, 101>>, <<100, 111, 119, 110>>}

\* The start of the region after the first non-vowel that follows a vowel, at
\* or after position start; Len(w) + 1 when there is none.  R1 is the region
\* of the whole word, R2 the region of R1.
RegionAfter(w, start) ==
  LET S == {k \in (start + 1)..Len(w) : w[k] \notin Vowels /\ w[k - 1] \in Vowels}
  IN IF S = {} THEN Len(w) + 1
     ELSE 1 + CHOOSE k \in S : \A j \in S : k <= j
R1(w) == RegionAfter(w, 1)
R2(w) == RegionAfter(w, R1(w))

\* w ends in a short syllable: a vowel followed by a non-vowel other than w, x
\* or y and preceded by a non-vowel, or a vowel that begins the word followed
\* by a non-vowel
EndsShortSyllable(w) ==
  \/ /\ Len(w) >= 3
     /\ w[Len(w)] \notin (Vowels \cup {119, 120})
     /\ w[Len(w) - 1] \in Vowels
     /\ w[Len(w) - 2] \notin Vowels
  \/ Len(w) = 2 /\ w[1] \in Vowels /\ w[2] \notin Vowels

\* step 1a: "sses" becomes "ss"; a final "s" goes after a part holding a vowel
\* that is not the letter before it, except in "ss" and "us"
Step1a(w) ==
  IF HasSuffix(w, <<115, 115, 101, 115>>) THEN DropLast(w, 2)
  ELSE IF /\ w[Len(w)] = 115
          /\ w[Len(w) - 1] \notin {115, 117}
          /\ \E i \in 1..(Len(w) - 2) : w[i] \in Vowels
       THEN DropLast(w, 1)
       ELSE w

\* what step 1b leaves of a word once "ed" or "ing" is gone: an "e" is added
\* after "at", "bl", "iz" and to a short word, a doubled final letter is undone
AfterStep1b(t, r1) ==
  IF \/ HasSuffix(t, <<97, 116>>) \/ HasSuffix(t, <<98, 108>>)
     \/ HasSuffix(t, <<105, 122>>)
  THEN Append(t, 101)
  ELSE IF /\ Len(t) >= 2
          /\ t[Len(t)] = t[Len(t) - 1]
          /\ t[Len(t)] \in {98, 100, 102, 103, 109, 110, 112, 114, 116}
       THEN DropLast(t, 1)
  ELSE IF r1 > Len(t) /\ EndsShortSyllable(t) THEN Append(t, 101)
  ELSE t

\* step 1b: "eed" becomes "ee" when it lies in R1; "ing" and "ed" go when the
\* part before holds a vowel
Step1b(w, r1) ==
  LET n == IF HasSuffix(w, <<105, 110, 103>>) THEN 3
           ELSE IF HasSuffix(w, <<101, 100>>) THEN 2 ELSE 0
  IN IF HasSuffix(w, <<101, 101, 100>>)
     THEN (IF Len(w) - 2 >= r1 THEN DropLast(w, 1) ELSE w)
     ELSE IF n > 0 /\ \E i \in 1..(Len(w) - n) : w[i] \in Vowels
     THEN AfterStep1b(DropLast(w, n), r1)
     ELSE w

\* step 4, suffix "er": it goes when it lies in R2
Step4(w, r2) ==
  IF HasSuffix(w, <<101, 114>>) /\ Len(w) - 1 >= r2 THEN DropLast(w, 2) ELSE w

\* step 5: a final "e" goes when it lies in R2, or in R1 and not after a short
\* syllable; a final "l" goes when it lies in R2 and follows an "l"
Step5(w, r1, r2) ==
  IF w = <<>> THEN w
  ELSE IF w[Len(w)] = 101
       THEN (IF \/ Len(w) >= r2
                \/ (Len(w) >= r1 /\ ~EndsShortSyllable(DropLast(w, 1)))
             THEN DropLast(w, 1) ELSE w)
  ELSE IF w[Len(w)] = 108 /\ Len(w) >= r2 /\ Len(w) >= 2 /\ w[Len(w) - 1] = 108
       THEN DropLast(w, 1)
  ELSE w

\* snowball.Stem(token, language, false) with the error ignored.  English:
\* a word of at most two letters and a stop word are returned as they are; of
\* the steps of the stemmer those that change a word of the bounded sets are
\* modelled: 1a (plurals), 1b ("ed", "ing"), 4 ("er") and 5 (final "e", "l").
\* Any other language tag makes snowball return an error and the empty
\* string.
Stem(token, language) ==
  IF language # "english" THEN <<>>
  ELSE IF Len(token) <= 2 \/ token \in StopWords THEN token
  ELSE Step5(Step4(Step1b(Step1a(token), R1(token)), R2(token)), R1(token), R2(token))

Tokenize(text, language) ==
  LET tokens == Fields(text)
  IN [i \in 1..Len(tokens) |-> Stem(tokens[i], language)]

\* ------------------------------------------------------------- vocabulary
SeqRange(s) == {s[i] : i \in 1..Len(s)}

\* a document frequency that counts every document
DocFreqAll(docs, term) == Len(docs)

\* number of documents whose lowercased text contains term as a substring
DocFreq(docs, term) == Cardinality({i \in 1..Len(docs) : Contains(ToLower(docs[i]), term)})

NewVocabulary(docs, language) ==
  LET vocabulary == UNION {SeqRange(Tokenize(ToLower(docs[i]), language)) : i \in 1..Len(docs)}
      terms == SortStrings(vocabulary)
      idf(term) == LET freq == DocFreq(docs, term)
                   IN IF freq # 0 THEN Rat(Len(docs), freq) ELSE RZero
  IN [Language |-> language,
      Terms |-> [i \in 1..Len(terms) |-> [Token |-> terms[i], IDF |-> idf(terms[i])]]]

\* an encoder that counts the tokens equal to the term
CalculateExactVector(v, tokens) ==
  [i \in 1..Len(v.Terms) |->
     RMul(Rat(Cardinality({k \in 1..Len(tokens) : tokens[k] = v.Terms[i].Token}), 1),
          v.Terms[i].IDF)]

CalculateTFIDFVector(v, tokens) ==
  LET tokensStr == ToLower(Join(tokens, <<SPACE>>))
  IN [i \in 1..Len(v.Terms) |->
        RMul(Rat(Count(tokensStr, v.Terms[i].Token), 1), v.Terms[i].IDF)]

RECURSIVE Flatten(_)
Flatten(ss) == IF ss = <<>> THEN <<>> ELSE Head(ss) \o Flatten(Tail(ss))

VocabularySaveToBinaryStream(v) ==
  WriteInt32(Len(v.Terms))
    \o Flatten([i \in 1..Len(v.Terms) |->
                  WriteInt32(Len(v.Terms[i].Token))
                    \o WriteString(v.Terms[i].Token)
                    \o WriteFloat64(v.Terms[i].IDF)])

\* the loop of NewVocabularyFromBinaryStream: n terms still to read at offset p
RECURSIVE ReadTerms(_, _, _)
ReadTerms(f, p, n) ==
  IF n <= 0 THEN [ok |-> TRUE, v |-> <<>>, pos |-> p]
  ELSE LET length == ReadInt32(f, p)
       IN IF ~length.ok THEN [ok |-> FALSE, v |-> <<>>, pos |-> length.pos]
          ELSE LET term == Read(f, length.pos, length.v)
               IN IF ~term.ok THEN [ok |-> FALSE, v |-> <<>>, pos |-> term.pos]
                  ELSE LET idf == ReadFloat64(f, term.pos)
                       IN IF ~idf.ok THEN [ok |-> FALSE, v |-> <<>>, pos |-> idf.pos]
                          ELSE LET rest == ReadTerms(f, idf.pos, n - 1)
                               IN [ok |-> rest.ok,
                                   v |-> <<[Token |-> term.v, IDF |-> idf.v]>> \o rest.v,
                                   pos |-> rest.pos]

\* returns the vocabulary (Nil on a read error) and the offset the stream is left at
NewVocabularyFromBinaryStream(f, p, language) ==
  LET numTerms == ReadInt32(f, p)
  IN IF ~numTerms.ok THEN [v |-> Nil, pos |-> numTerms.pos]
     ELSE LET terms == ReadTerms(f, numTerms.pos, numTerms.v)
          IN IF ~terms.ok THEN [v |-> Nil, pos |-> terms.pos]
             ELSE [v |-> [Language |-> language, Terms |-> terms.v], pos |-> terms.pos]

\* ------------------------------------------------------------- vector index
NewVectorDB(sz) == [VectorSize |-> sz, DataPoints |-> <<>>]

VectorDBSaveToBinaryStream(db) ==
  WriteInt32(db.VectorSize)
    \o WriteInt32(Len(db.DataPoints))
    \o Flatten([i \in 1..Len(db.DataPoints) |->
                  WriteInt32(db.DataPoints[i].ID)
                    \o Flatten([j \in 1..Len(db.DataPoints[i].Data) |->
                                  WriteFloat64(db.DataPoints[i].Data[j])])])

\* the inner loop of NewVectorDBFromBinaryStream: n values still to read
RECURSIVE ReadValues(_, _, _)
ReadValues(f, p, n) ==
  IF n <= 0 THEN [ok |-> TRUE, v |-> <<>>, pos |-> p]
  ELSE LET value == ReadFloat64(f, p)
       IN IF ~value.ok THEN [ok |-> FALSE, v |-> <<>>, pos |-> value.pos]
          ELSE LET rest == ReadValues(f, value.pos, n - 1)
               IN [ok |-> rest.ok, v |-> <<value.v>> \o rest.v, pos |-> rest.pos]

\* the outer loop: n data points of vectorSz values each still to read
RECURSIVE ReadDataPoints(_, _, _, _)
ReadDataPoints(f, p, n, vectorSz) ==
  IF n <= 0 THEN [ok |-> TRUE, v |-> <<>>, pos |-> p]
  ELSE LET id == ReadInt32(f, p)
       IN IF ~id.ok THEN [ok |-> FALSE, v |-> <<>>, pos |-> id.pos]
          ELSE LET data == ReadValues(f, id.pos, vectorSz)
               IN IF ~data.ok THEN [ok |-> FALSE, v |-> <<>>, pos |-> data.pos]
                  ELSE LET rest == ReadDataPoints(f, data.pos, n - 1, vectorSz)
                       IN [ok |-> rest.ok,
                           v |-> <<[ID |-> id.v, Data |-> data.v]>> \o rest.v,
                           pos |-> rest.pos]

\* The struct is created without a VectorSize and the loader never assigns the
\* width it reads, so the loaded index keeps Go's zero value in that field.
LoadedVectorSize(vectorSz) == 0

NewVectorDBFromBinaryStream(f, p) ==
  LET vectorSz == ReadInt32(f, p)
  IN IF ~vectorSz.ok THEN Nil
     ELSE LET numDatapoints == ReadInt32(f, vectorSz.pos)
          IN IF ~numDatapoints.ok THEN Nil
             ELSE LET points == ReadDataPoints(f, numDatapoints.pos, numDatapoints.v, vectorSz.v)
                  IN IF ~points.ok THEN Nil
                     ELSE [VectorSize |-> LoadedVectorSize(vectorSz.v), DataPoints |-> points.v]

\* The older index of package algo, used by the older ActionDB: the save writes
\* the entry count and, per entry, the id, the vector length and the values;
\* the load reads a width, an entry count and, per entry, the id and the values.
\* Its NumTerms field is held in VectorSize and, like it, is not set on load.
AlgoVectorDBSaveToBinaryStream(db) ==
  WriteInt32(Len(db.DataPoints))
    \o Flatten([i \in 1..Len(db.DataPoints) |->
                  WriteInt32(db.DataPoints[i].ID)
                    \o WriteInt32(Len(db.DataPoints[i].Data))
                    \o Flatten([j \in 1..Len(db.DataPoints[i].Data) |->
                                  WriteFloat64(db.DataPoints[i].Data[j])])])

AlgoNewVectorDBFromBinaryStream(f, p) ==
  LET numTerms == ReadInt32(f, p)
  IN IF ~numTerms.ok THEN Nil
     ELSE LET numDatapoints == ReadInt32(f, numTerms.pos)
          IN IF ~numDatapoints.ok THEN Nil
             ELSE LET points == ReadDataPoints(f, numDatapoints.pos, numDatapoints.v, numTerms.v)
                  IN IF ~points.ok THEN Nil
                     ELSE [VectorSize |-> 0, DataPoints |-> points.v]

\* the index codec of the agent variant pkg: "db" or "algo"
SaveIndex(pkg, db) ==
  IF pkg = "algo" THEN AlgoVectorDBSaveToBinaryStream(db) ELSE VectorDBSaveToBinaryStream(db)

LoadIndex(pkg, f, p) ==
  IF pkg = "algo" THEN AlgoNewVectorDBFromBinaryStream(f, p)
  ELSE NewVectorDBFromBinaryStream(f, p)

\* A similarity score is kept as the signed square of the float the code
\* computes, sign(x) * x^2, an exact rational that orders as x does.
SignedSquare(r) == Rat(r[1] * (IF r[1] < 0 THEN -r[1] ELSE r[1]), r[2] * r[2])

RECURSIVE Dot(_, _)
Dot(a, b) == IF a = <<>> THEN RZero ELSE RAdd(RMul(Head(a), Head(b)), Dot(Tail(a), Tail(b)))

\* floats.Dot panics when the two slices differ in length
DotPanics(vector1, vector2) == Len(vector1) # Len(vector2)

CosineSimilarity(vector1, vector2) ==
  LET dotProduct == Dot(vector1, vector2)
      sq1 == Dot(vector1, vector1)
      sq2 == Dot(vector2, vector2)
  IN IF sq1[1] = 0 \/ sq2[1] = 0 THEN RZero
     ELSE LET d == SignedSquare(dotProduct)
          IN Rat(d[1] * sq1[2] * sq2[2], d[2] * sq1[1] * sq2[1])

\* similarity > minimumScore, the comparison of GetSimilarEntriesWithScores
PassesStrict(similarity, minimumScore) == ~RLeq(similarity, SignedSquare(minimumScore))

\* similarity >= minimumScore
Passes(similarity, minimumScore) == RLeq(SignedSquare(minimumScore), similarity)

\* the positions 1..n that are in keep, ascending, as 0-based ids
RECURSIVE Collect(_, _, _)
Collect(keep, i, n) ==
  IF i > n THEN <<>>
  ELSE (IF i \in keep THEN <<i - 1>> ELSE <<>>) \o Collect(keep, i + 1, n)

\* the ids returned are the positions in DataPoints (0-based), in that order;
\* panic tells that floats.Dot panicked
GetSimilarEntries(db, query, minimumScore) ==
  LET n == Len(db.DataPoints)
  IN IF \E i \in 1..n : DotPanics(query, db.DataPoints[i].Data)
     THEN [panic |-> TRUE, ids |-> <<>>]
     ELSE [panic |-> FALSE,
           ids |-> Collect({i \in 1..n :
                             Passes(CosineSimilarity(query, db.DataPoints[i].Data),
                                    minimumScore)}, 1, n)]

\* ------------------------------------------------------------- catalog and cache state
\* Action files are identified by name; the bytes of actions/<name>.yaml are
\* represented by the description text they hold.
Names == {"x", "y"}
Languages == {"english"}

\* the language tags an artifact may be kept under in local/cache/<version>:
\* the configured language is any string, "klingon" is one the stemmer does
\* not know
CacheLanguages == Languages \cup {"klingon"}

DescA == <<97>>
DescBA == <<98, 32, 97>>
DescAb == <<65, 98>>
Descriptions == {DescA, DescBA, DescAb}

ConfigLists == {<<"x">>, <<"x", "y">>, <<"y", "x">>}

QueryTexts == {<<98>>, <<65, 32, 98>>, <<99>>}
MinimumScores == {<<0, 1>>, <<1, 2>>, <<101, 100>>}

Versions == 0..MaxCommits

VARIABLES
  head,       \* the tree of the HEAD commit: [files, actions]
  work,       \* the working tree: [files, actions]
  version,    \* the HEAD commit, as the number of commits made
  edits,      \* catalog edits made so far
  checksum,   \* local/cache/<version>/actions.checksum, per version
  artifact,   \* local/cache/<version>/<language>.vocabulary, per version and language
  adb,        \* the ActionDB of the running agent, Nil before the first Init
  run,        \* what the last CacheInit did
  last,       \* the kind of operation that led to this state: init, edit or query
  result,     \* what QueryDescription returned, when it was the last operation
  faults,     \* failures and damages the environment has caused so far
  agentLoaded, \* the agent has been initialised and accepts requests
  calls,      \* the QueryDescription calls in flight, per caller
  rebuild,    \* the CacheInit build in flight on the running agent
  tokenized,  \* the last call of Tokenize: its text, its language tag and what it returned
  matched,    \* the last call of MatchAll: its pattern, its strings and what it returned
  workers,    \* the front-end's DispatchInput call and the goroutines processInput and processOutput
  stream      \* a BinaryFileStream: its file, its offset, the last write and read

vars == <<head, work, version, edits, checksum, artifact, adb, run, last, result, faults,
          agentLoaded, calls, rebuild, tokenized, matched, workers, stream>>

\* Init has not made the channels nor started the goroutines; no call of
\* DispatchInput is in progress
NoWorkers == [front |-> "idle", msg |-> "", input |-> "none", output |-> "none",
              pending |-> <<>>, dispatched |-> 0]

\* go processInput(); go processOutput(): both wait on their channel
StartWorkers == [NoWorkers EXCEPT !.input = "receiving", !.output = "receiving"]

\* MatchAll has not been called
NoMatched == [ran |-> FALSE, pattern |-> <<>>, strings |-> <<>>, out |-> <<>>]

\* Tokenize has not been called
NoTokenized == [ran |-> FALSE, text |-> <<>>, language |-> "english", out |-> <<>>]

\* the goroutines that call QueryDescription
Callers == {1, 2}

\* a caller that is not in QueryDescription
NoCall == [pc |-> "idle", description |-> <<>>, minimumScore |-> <<0, 1>>,
           live |-> TRUE, adb |-> [nil |-> TRUE], gen |-> 0,
           tokens |-> <<>>, query |-> <<>>, n |-> 0, i |-> 0,
           similarEntries |-> <<>>, actions |-> <<>>, panic |-> FALSE,
           vocabularyAt |-> "none", indexAt |-> "none", sawZero |-> FALSE]
NoCalls == [c \in Callers |-> NoCall]

\* no build in flight; gen numbers the DataPoints arrays that have been the
\* index's, old holds the arrays that were replaced
NoRebuild == [pc |-> "idle", fresh |-> FALSE, descriptions |-> <<>>, i |-> 0,
              gen |-> 0, old |-> <<>>, before |-> [nil |-> TRUE], rebuilds |-> 0]

\* a stream on a new file, nothing written or read
NoStream == [file |-> <<>>, pos |-> 0, ops |-> 0, op |-> "none",
             kind |-> "none", value |-> <<>>, at |-> 0,
             got |-> [kind |-> "none", ok |-> TRUE, v |-> <<>>, at |-> 0]]

NoRun == [err |-> "none", localChanges |-> FALSE, hadChecksum |-> FALSE,
          current |-> <<0, 0, 0, 0>>, invalidateCache |-> FALSE, removed |-> FALSE,
          path |-> "none", hadArtifact |-> FALSE, mkdirFailed |-> FALSE,
          openFailed |-> "none"]
NoResult == [description |-> <<>>, minimumScore |-> <<0, 1>>, query |-> <<>>,
             indexes |-> <<>>, actions |-> <<>>, panic |-> FALSE, ran |-> FALSE]

InitialTree == [files |-> [n \in Names |-> IF n = "x" THEN DescA ELSE DescBA],
                actions |-> <<"x", "y">>]

Init ==
  /\ head = InitialTree
  /\ work = InitialTree
  /\ version = 0
  /\ edits = 0
  /\ checksum = [v \in Versions |-> NoFile]
  /\ artifact = [v \in Versions |-> [l \in CacheLanguages |-> NoFile]]
  /\ adb = Nil
  /\ run = NoRun
  /\ last = "none"
  /\ result = NoResult
  /\ faults = 0
  /\ workers = NoWorkers
  /\ matched = NoMatched
  /\ tokenized = NoTokenized
  /\ rebuild = NoRebuild
  /\ calls = NoCalls
  /\ agentLoaded = FALSE
  /\ stream = NoStream

\* ------------------------------------------------------------- Storage (git worktree)
\* worktree.Status().IsClean(): no path of the working tree differs from HEAD
HasLocalChanges == work # head

\* Status("actions/*.yaml"): the changed paths that match the wildcard
Status == {n \in Names : work.files[n] # head.files[n]}

\* Status ranges over a Go map, so the changed paths come in any order
Orders(S) == {o \in [1..Cardinality(S) -> S] : \A i, j \in 1..Cardinality(S) : i # j => o[i] # o[j]}

GetVersion == version

\* ------------------------------------------------------------- the user's edits of the catalog
EditAction(n, d) ==
  /\ edits < MaxEdits
  /\ work.files[n] # d
  /\ work' = [work EXCEPT !.files[n] = d]
  /\ edits' = edits + 1
  /\ last' = "edit"
  /\ result' = NoResult
  /\ UNCHANGED <<head, version, checksum, artifact, adb, run, faults, stream, agentLoaded, calls, rebuild, tokenized, matched, workers>>

SetConfig(list) ==
  /\ edits < MaxEdits
  /\ work.actions # list
  /\ work' = [work EXCEPT !.actions = list]
  /\ edits' = edits + 1
  /\ last' = "edit"
  /\ result' = NoResult
  /\ UNCHANGED <<head, version, checksum, artifact, adb, run, faults, stream, agentLoaded, calls, rebuild, tokenized, matched, workers>>

Commit ==
  /\ version < MaxCommits
  /\ work # head
  /\ head' = work
  /\ version' = version + 1
  /\ last' = "edit"
  /\ result' = NoResult
  /\ UNCHANGED <<work, edits, checksum, artifact, adb, run, faults, stream, agentLoaded, calls, rebuild, tokenized, matched, workers>>

Revert ==
  /\ work # head
  /\ work' = head
  /\ last' = "edit"
  /\ result' = NoResult
  /\ UNCHANGED <<head, version, edits, checksum, artifact, adb, run, faults, stream, agentLoaded, calls, rebuild, tokenized, matched, workers>>

\* ------------------------------------------------------------- ActionDB
\* a file that exists and that ReadFile cannot read: no byte sequence holds -2
NoRead == <<-2>>
\* the bytes of a file that is not YAML: a tab where a token must start
BadYaml == <<9>>

\* Stat, ReadFile and yaml.Unmarshal of actions/<n>.yaml in the working tree
Stat(n) == work.files[n] # NoFile
ReadFile(n) ==
  IF work.files[n] \in {NoFile, NoRead} THEN [ok |-> FALSE, data |-> <<>>]
  ELSE [ok |-> TRUE, data |-> work.files[n]]
Unmarshal(data) ==
  IF data = BadYaml THEN [ok |-> FALSE, Description |-> <<>>]
  ELSE [ok |-> TRUE, Description |-> data]

\* GetAction: the definition of an action, or an error
GetAction(n) ==
  IF ~Stat(n) \/ ~ReadFile(n).ok THEN [ok |-> FALSE, Description |-> <<>>]
  ELSE Unmarshal(ReadFile(n).data)

\* NewActionDB: the configured actions whose definition file exists, reads and
\* parses, in the configured order; Actions maps each to its definition.
NewActionDB(actions, language) ==
  LET actionNames == SelectSeq(actions, LAMBDA a : GetAction(a).ok)
  IN [Actions |-> [a \in SeqRange(actionNames) |->
                     [Description |-> GetAction(a).Description]],
      ActionNames |-> actionNames,
      Language |-> language,
      Vocabulary |-> Nil,
      VectorDB |-> Nil]

\* NewActionDB of the older agent: the configured actions whose definition
\* file exists; the definitions are read by CacheInit, through GetAction
AlgoNewActionDB(actions, language) ==
  LET actionNames == SelectSeq(actions, LAMBDA a : Stat(a))
  IN [Actions |-> [a \in SeqRange(actionNames) |->
                     [Description |-> GetAction(a).Description]],
      ActionNames |-> actionNames,
      Language |-> language,
      Vocabulary |-> Nil,
      VectorDB |-> Nil]

\* the ActionDB the agent variant pkg starts with
NewActionDBOf(pkg, actions, language) ==
  IF pkg = "algo" THEN AlgoNewActionDB(actions, language)
  ELSE NewActionDB(actions, language)

\* int64(0)
Int64Zero == <<0, 0, 0, 0>>

\* calculateChecksum: CRC-32 of the changed files' bytes joined in the given
\* order, 0 when one of them cannot be read
calculateChecksum(actionNames) ==
  IF \E i \in 1..Len(actionNames) : ~ReadFile(actionNames[i]).ok
  THEN Int64Zero
  ELSE ChecksumIEEE(Join([i \in 1..Len(actionNames) |-> work.files[actionNames[i]]], <<>>))

\* the rebuild branch of CacheInit: vocabulary and index from the loaded actions
BuildDescriptions(a) ==
  [i \in 1..Len(a.ActionNames) |-> a.Actions[a.ActionNames[i]].Description]

BuildVocabulary(a) == NewVocabulary(BuildDescriptions(a), a.Language)

BuildVectorDB(a, vocabulary) ==
  LET descriptions == BuildDescriptions(a)
      db == NewVectorDB(Len(vocabulary.Terms))
  IN [db EXCEPT !.DataPoints =
        [i \in 1..Cardinality(DOMAIN a.Actions) |->
           [ID |-> i - 1,
            Data |-> CalculateTFIDFVector(vocabulary,
                       Tokenize(ToLower(descriptions[i]), a.Language))]]]

\* The rebuild makes its description array as long as the Actions map and
\* fills it at every position of ActionNames: descriptions[i] is out of range
\* when the list holds more names than the map holds keys.
BuildPanics(a) == Len(a.ActionNames) > Cardinality(DOMAIN a.Actions)

\* The stored checksum is compared with the current one; a differing record
\* is left as it is.
ChecksumAfter(stored, current) ==
  IF stored = NoFile THEN WriteInt64(current) ELSE stored

\* invalidateCache for a stored record (NoFile when there is none)
InvalidateCache(stored, current) ==
  IF stored = NoFile THEN TRUE ELSE ReadInt64(stored, 0).v # current

\* RemoveAll of the artifact; its error is logged and ignored
RemoveAll(file, fault) == IF fault = "removeFails" THEN file ELSE NoFile

\* Stat of local/cache/<version>: the folder exists once a file was created
\* in it
StatIndexFolder(v) ==
  checksum[v] # NoFile \/ \E l \in CacheLanguages : artifact[v][l] # NoFile

\* Mkdir of local/cache/<version> when Stat did not find it; its error is not
\* looked at.  TRUE when the folder exists afterwards.
Mkdir(v, fault) == StatIndexFolder(v) \/ fault # "mkdirFails"

\* an OpenFileStream that would create the folders of its path
OpenFileStreamMkdirAll(file, v, fault) ==
  /\ ~(file = "checksum" /\ fault = "openChecksumFails")
  /\ ~(file = "artifact" /\ fault = "openArtifactFails")

\* OpenFileStream of a file of local/cache/<version>: os.OpenFile with
\* O_RDWR|O_CREATE, which fails in a folder that does not exist.  TRUE when
\* the stream is open.
OpenFileStream(file, v, fault) ==
  /\ Mkdir(v, fault)
  /\ ~(file = "checksum" /\ fault = "openChecksumFails")
  /\ ~(file = "artifact" /\ fault = "openArtifactFails")

\* CacheInit for the ActionDB a, with the order in which Status lists the
\* changed files and the I/O fault met (if any).  Returns the files and the
\* ActionDB it leaves, and what it did.
CacheInit(a, changedFiles, fault, pkg) ==
  LET dbVersion == GetVersion
      changedActions == SelectSeq(changedFiles, LAMBDA f : f \in SeqRange(a.ActionNames))
      currentChecksum == calculateChecksum(changedActions)
      stored == checksum[dbVersion]
      readErr == HasLocalChanges /\ stored # NoFile /\ ~ReadInt64(stored, 0).ok
      invalidateCache == HasLocalChanges /\ InvalidateCache(stored, currentChecksum)
      checksumAfter == IF HasLocalChanges THEN ChecksumAfter(stored, currentChecksum)
                       ELSE stored
      old == artifact[dbVersion][a.Language]
      kept == IF invalidateCache THEN RemoveAll(old, fault) ELSE old
      vocabulary == BuildVocabulary(a)
      vectorDB == BuildVectorDB(a, vocabulary)
      loadedV == NewVocabularyFromBinaryStream(kept, 0, a.Language)
      info == [err |-> "none", localChanges |-> HasLocalChanges,
               hadChecksum |-> stored # NoFile, current |-> currentChecksum,
               invalidateCache |-> invalidateCache,
               removed |-> invalidateCache /\ old # NoFile /\ kept = NoFile,
               path |-> "none", hadArtifact |-> old # NoFile,
               mkdirFailed |-> ~Mkdir(dbVersion, fault),
               openFailed |-> "none"]
  IN IF HasLocalChanges /\ ~OpenFileStream("checksum", dbVersion, fault)
     THEN [checksum |-> stored, artifact |-> old, adb |-> a,
           run |-> [info EXCEPT !.openFailed = "checksum",
                                !.err = IF stored = NoFile
                                        THEN "error creating checksum file"
                                        ELSE "error reading checksum file"]]
     ELSE IF readErr
     THEN [checksum |-> stored, artifact |-> old, adb |-> a,
           run |-> [info EXCEPT !.err = "error reading checksum file"]]
     ELSE IF kept = NoFile /\ pkg = "algo"
               /\ \E i \in 1..Len(a.ActionNames) : ~GetAction(a.ActionNames[i]).ok
     THEN [checksum |-> checksumAfter, artifact |-> kept, adb |-> a,
           run |-> [info EXCEPT !.err = "error reading action file", !.path = "build"]]
     ELSE IF kept = NoFile /\ pkg = "db" /\ BuildPanics(a)
     THEN [checksum |-> checksumAfter, artifact |-> kept, adb |-> a,
           run |-> [info EXCEPT !.err = "index out of range", !.path = "build"]]
     ELSE IF kept = NoFile /\ ~OpenFileStream("artifact", dbVersion, fault)
     THEN [checksum |-> checksumAfter, artifact |-> kept,
           adb |-> [a EXCEPT !.Vocabulary = vocabulary, !.VectorDB = vectorDB],
           run |-> [info EXCEPT !.openFailed = "artifact", !.path = "build",
                                !.err = "error creating vocabulary file"]]
     ELSE IF kept # NoFile /\ ~OpenFileStream("artifact", dbVersion, fault)
     THEN [checksum |-> checksumAfter, artifact |-> kept, adb |-> a,
           run |-> [info EXCEPT !.openFailed = "artifact", !.path = "load",
                                !.err = "error creating vocabulary file"]]
     ELSE IF kept = NoFile /\ fault = "saveFails"
     THEN [checksum |-> checksumAfter,
           artifact |-> VocabularySaveToBinaryStream(vocabulary)
                          \o SaveIndex(pkg, vectorDB),
           adb |-> [a EXCEPT !.Vocabulary = vocabulary, !.VectorDB = vectorDB],
           run |-> [info EXCEPT !.path = "build", !.err = "error saving vocabulary file"]]
     ELSE IF kept = NoFile
     THEN [checksum |-> checksumAfter,
           artifact |-> VocabularySaveToBinaryStream(vocabulary)
                          \o SaveIndex(pkg, vectorDB),
           adb |-> [a EXCEPT !.Vocabulary = vocabulary, !.VectorDB = vectorDB],
           run |-> [info EXCEPT !.path = "build"]]
     ELSE [checksum |-> checksumAfter,
           artifact |-> kept,
           adb |-> [a EXCEPT !.Vocabulary = loadedV.v,
                             !.VectorDB = LoadIndex(pkg, kept, loadedV.pos)],
           run |-> [info EXCEPT !.path = "load"]]

\* agent.Init with the configured language: NewActionDB from the configured
\* actions, then CacheInit
AgentInitIn(language, fault, pkg) ==
  /\ fault # "none" => faults < MaxFaults
  /\ \E changedFiles \in Orders(Status) :
    LET out == CacheInit(NewActionDBOf(pkg, work.actions, language), changedFiles, fault, pkg)
    IN /\ checksum' = [checksum EXCEPT ![GetVersion] = out.checksum]
       /\ artifact' = [artifact EXCEPT ![GetVersion][language] = out.artifact]
       /\ adb' = out.adb
       /\ run' = out.run
       /\ last' = "init"
       /\ result' = NoResult
       /\ faults' = IF fault = "none" THEN faults ELSE faults + 1
       /\ agentLoaded' = (out.run.err = "none")
       /\ workers' = IF out.run.err = "none" THEN StartWorkers ELSE workers
       /\ UNCHANGED <<head, work, version, edits, stream, calls, rebuild, tokenized, matched>>

AgentInit(fault, pkg) == \E language \in Languages : AgentInitIn(language, fault, pkg)

\* ------------------------------------------------------------- QueryDescription
\* a nil Vocabulary or VectorDB is dereferenced, floats.Dot panics, or an id is
\* not an index of ActionNames
QueryPanics(a, query, minimumScore) ==
  \/ a.Vocabulary = Nil
  \/ a.VectorDB = Nil
  \/ GetSimilarEntries(a.VectorDB, query, minimumScore).panic
  \/ \E id \in SeqRange(GetSimilarEntries(a.VectorDB, query, minimumScore).ids) :
        id + 1 > Len(a.ActionNames)

QueryDescription(a, description, minimumScore) ==
  LET tokens == Tokenize(ToLower(description), a.Language)
      query == IF a.Vocabulary = Nil THEN <<>>
               ELSE CalculateTFIDFVector(a.Vocabulary, tokens)
      indexes == IF a.Vocabulary = Nil \/ a.VectorDB = Nil THEN <<>>
                 ELSE GetSimilarEntries(a.VectorDB, query, minimumScore).ids
      panic == QueryPanics(a, query, minimumScore)
  IN [description |-> description, minimumScore |-> minimumScore, query |-> query,
      indexes |-> indexes,
      actions |-> IF panic THEN <<>>
                  ELSE [i \in 1..Len(indexes) |->
                          a.Actions[a.ActionNames[indexes[i] + 1]].Description],
      panic |-> panic, ran |-> TRUE]

\* the bytes of an action name
NameBytes(n) == IF n = "x" THEN <<120>> ELSE IF n = "y" THEN <<121>> ELSE <<122>>

\* QueryDescription of the older ActionDB: the names of the matched actions
AlgoQueryDescription(a, description, minimumScore) ==
  LET r == QueryDescription(a, description, minimumScore)
  IN [r EXCEPT !.actions = IF r.panic THEN <<>>
                           ELSE [i \in 1..Len(r.indexes) |->
                                   NameBytes(a.ActionNames[r.indexes[i] + 1])]]

Query(description, minimumScore) ==
  /\ agentLoaded
  /\ result' = QueryDescription(adb, description, minimumScore)
  /\ last' = "query"
  /\ UNCHANGED <<head, work, version, edits, checksum, artifact, adb, run, faults, stream, agentLoaded, calls, rebuild, tokenized, matched, workers>>

\* ------------------------------------------------------------- specification
Next ==
  \/ \E n \in Names, d \in Descriptions : EditAction(n, d)
  \/ \E list \in ConfigLists : SetConfig(list)
  \/ Commit
  \/ Revert
  \/ AgentInit("none", "db")

Spec == Init /\ [][Next]_vars

\* ------------------------------------------------------------- faults
\* The environment can make the removal of a stale artifact fail and can
\* damage an artifact on disk: cut it short, or store another vector width.

\* offset of the index in an artifact: the end of its vocabulary part
IndexOffset(f) == NewVocabularyFromBinaryStream(f, 0, "english").pos

\* the lengths an artifact can be cut to: nothing, a partial term count, the
\* vocabulary alone, all but the last byte
Cuts(f) == {k \in {0, 2, IndexOffset(f), Len(f) - 1} : k >= 0 /\ k < Len(f)}

Truncate(f, keep) == SubSeq(f, 1, keep)

\* the widths that can replace the stored one
Widths(f) ==
  LET w == ReadInt32(f, IndexOffset(f))
  IN IF w.ok THEN {w.v + 1} \cup (IF w.v > 0 THEN {w.v - 1} ELSE {}) ELSE {}

SetWidth(f, w) ==
  SubSeq(f, 1, IndexOffset(f)) \o WriteInt32(w) \o SubSeq(f, IndexOffset(f) + 5, Len(f))

Damages(f) == {Truncate(f, k) : k \in Cuts(f)} \cup {SetWidth(f, w) : w \in Widths(f)}

DamageArtifact(v, language) ==
  /\ faults < MaxFaults
  /\ artifact[v][language] # NoFile
  /\ \E damaged \in Damages(artifact[v][language]) :
       artifact' = [artifact EXCEPT ![v][language] = damaged]
  /\ faults' = faults + 1
  /\ last' = "damage"
  /\ result' = NoResult
  /\ UNCHANGED <<head, work, version, edits, checksum, adb, run, stream, agentLoaded, calls, rebuild, tokenized, matched, workers>>

NextFault ==
  \/ Next
  \/ AgentInit("removeFails", "db")
  \/ \E v \in Versions, language \in Languages : DamageArtifact(v, language)

SpecFault == Init /\ [][NextFault]_vars

\* ------------------------------------------------------------- a failing save
\* agent.Init in which a write of SaveToBinaryStream fails: the artifact file
\* was created by OpenFileStream and holds the bytes written before the
\* error; CacheInit returns "error saving vocabulary file" and removes nothing.
SaveFails(language, changedFiles) ==
  CacheInit(NewActionDB(work.actions, language), changedFiles, "saveFails", "db")

\* the files a failed save can leave: a prefix of what it set out to write
PartialArtifacts(f) == {Truncate(f, keep) : keep \in Cuts(f)}

AgentInitSaveFails(language) ==
  /\ faults < MaxFaults
  /\ \E changedFiles \in Orders(Status) :
       /\ SaveFails(language, changedFiles).run.err = "error saving vocabulary file"
       /\ \E partial \in PartialArtifacts(SaveFails(language, changedFiles).artifact) :
            artifact' = [artifact EXCEPT ![GetVersion][language] = partial]
       /\ checksum' = [checksum EXCEPT ![GetVersion] = SaveFails(language, changedFiles).checksum]
       /\ adb' = SaveFails(language, changedFiles).adb
       /\ run' = SaveFails(language, changedFiles).run
  /\ last' = "init"
  /\ result' = NoResult
  /\ faults' = faults + 1
  /\ agentLoaded' = FALSE
  /\ UNCHANGED <<head, work, version, edits, stream, calls, rebuild, tokenized, matched, workers>>

NextSave ==
  \/ \E n \in Names, d \in Descriptions : EditAction(n, d)
  \/ AgentInit("none", "db")
  \/ \E language \in Languages : AgentInitSaveFails(language)

SpecSave == Init /\ [][NextSave]_vars

\* ------------------------------------------------------------- two languages
\* The agent is restarted with one or the other configured language over the
\* same cache folder.
NextLanguages ==
  \/ \E n \in Names, d \in Descriptions : EditAction(n, d)
  \/ \E language \in CacheLanguages : AgentInitIn(language, "none", "db")

SpecLanguages == Init /\ [][NextLanguages]_vars

\* The environment can make the creation of the cache folder fail, and the
\* opening of the checksum file or of the artifact.
OpenFaults == {"mkdirFails", "openChecksumFails", "openArtifactFails"}

NextOpen ==
  \/ \E n \in Names, d \in Descriptions : EditAction(n, d)
  \/ Revert
  \/ AgentInit("none", "db")
  \/ \E fault \in OpenFaults : AgentInit(fault, "db")

SpecOpen == Init /\ [][NextOpen]_vars

\* ------------------------------------------------------------- a worked corpus
\* The agent is started on a catalog of three actions whose descriptions are
\* English sentences, and is then queried.
ExampleNames == {"x", "y", "z"}
ExampleActions == <<"x", "y", "z">>

\* "restart the server", "shut down the machine", "list running processes"
DescRestart == <<114, 101, 115, 116, 97, 114, 116, 32, 116, 104, 101, 32, 115, 101, 114, 118, 101, 114>>
DescShutDown == <<115, 104, 117, 116, 32, 100, 111, 119, 110, 32, 116, 104, 101, 32, 109, 97, 99, 104, 105, 110, 101>>
DescList == <<108, 105, 115, 116, 32, 114, 117, 110, 110, 105, 110, 103, 32, 112, 114, 111, 99, 101, 115, 115, 101, 115>>
ExampleDescriptions == {DescRestart, DescShutDown, DescList}

\* "reboot the box", "list the machines"
QueryReboot == <<114, 101, 98, 111, 111, 116, 32, 116, 104, 101, 32, 98, 111, 120>>
QueryMachines == <<108, 105, 115, 116, 32, 116, 104, 101, 32, 109, 97, 99, 104, 105, 110, 101, 115>>
ExampleQueries == {QueryReboot, QueryMachines}
ExampleScores == {<<0, 1>>, <<1, 2>>}

InitExample ==
  \E files \in [ExampleNames -> ExampleDescriptions] :
    /\ head = [files |-> files, actions |-> ExampleActions]
    /\ work = head
    /\ version = 0
    /\ edits = 0
    /\ checksum = [v \in Versions |-> NoFile]
    /\ artifact = [v \in Versions |-> [l \in CacheLanguages |-> NoFile]]
    /\ adb = Nil
    /\ run = NoRun
    /\ last = "none"
    /\ result = NoResult
    /\ faults = 0
    /\ workers = NoWorkers
    /\ matched = NoMatched
    /\ tokenized = NoTokenized
    /\ rebuild = NoRebuild
    /\ calls = NoCalls
    /\ agentLoaded = FALSE
    /\ stream = NoStream

NextExample ==
  \/ AgentInit("none", "db")
  \/ \E description \in ExampleQueries, minimumScore \in ExampleScores :
       Query(description, minimumScore)

SpecExample == InitExample /\ [][NextExample]_vars

\* ------------------------------------------------------------- queries
\* The agent is started on any committed catalog of the bounded sets and is
\* then queried.
CatalogLists == ConfigLists \cup {<<>>}
CatalogDescriptions == Descriptions \cup {<<>>}

InitCatalog ==
  \E files \in [Names -> CatalogDescriptions], list \in CatalogLists :
    /\ head = [files |-> files, actions |-> list]
    /\ work = head
    /\ version = 0
    /\ edits = 0
    /\ checksum = [v \in Versions |-> NoFile]
    /\ artifact = [v \in Versions |-> [l \in CacheLanguages |-> NoFile]]
    /\ adb = Nil
    /\ run = NoRun
    /\ last = "none"
    /\ result = NoResult
    /\ faults = 0
    /\ workers = NoWorkers
    /\ matched = NoMatched
    /\ tokenized = NoTokenized
    /\ rebuild = NoRebuild
    /\ calls = NoCalls
    /\ agentLoaded = FALSE
    /\ stream = NoStream

NextQuery ==
  \/ AgentInit("none", "db")
  \/ \E description \in QueryTexts, minimumScore \in MinimumScores :
       Query(description, minimumScore)

SpecQuery == InitCatalog /\ [][NextQuery]_vars

\* ------------------------------------------------------------- repeated names
\* The agent is started on a configured list that may name an action twice.
RepeatedLists == {<<"x", "x">>, <<"x", "y", "x">>, <<"x", "y">>}

InitRepeated ==
  \E files \in [Names -> CatalogDescriptions], list \in RepeatedLists :
    /\ head = [files |-> files, actions |-> list]
    /\ work = head
    /\ version = 0
    /\ edits = 0
    /\ checksum = [v \in Versions |-> NoFile]
    /\ artifact = [v \in Versions |-> [l \in CacheLanguages |-> NoFile]]
    /\ adb = Nil
    /\ run = NoRun
    /\ last = "none"
    /\ result = NoResult
    /\ faults = 0
    /\ workers = NoWorkers
    /\ matched = NoMatched
    /\ tokenized = NoTokenized
    /\ rebuild = NoRebuild
    /\ calls = NoCalls
    /\ agentLoaded = FALSE
    /\ stream = NoStream

SpecRepeated == InitRepeated /\ [][NextQuery]_vars

\* ------------------------------------------------------------- the older agent
\* The older ActionDB runs the same cache protocol over the codec of package
\* algo.
AlgoQuery(description, minimumScore) ==
  /\ agentLoaded
  /\ result' = AlgoQueryDescription(adb, description, minimumScore)
  /\ last' = "query"
  /\ UNCHANGED <<head, work, version, edits, checksum, artifact, adb, run, faults, stream,
                 agentLoaded, calls, rebuild, tokenized, matched, workers>>

NextAlgo ==
  \/ AgentInit("none", "algo")
  \/ \E description \in QueryTexts, minimumScore \in MinimumScores :
       AlgoQuery(description, minimumScore)

SpecAlgo == InitCatalog /\ [][NextAlgo]_vars

\* ------------------------------------------------------------- bad definitions
\* The agent is started on a catalog in which a definition file can be
\* missing, unreadable or not YAML.
DegradedFiles == {DescA, DescBA, NoFile, NoRead, BadYaml}

InitDegraded ==
  \E files \in [Names -> DegradedFiles], list \in ConfigLists :
    /\ head = [files |-> files, actions |-> list]
    /\ work = head
    /\ version = 0
    /\ edits = 0
    /\ checksum = [v \in Versions |-> NoFile]
    /\ artifact = [v \in Versions |-> [l \in CacheLanguages |-> NoFile]]
    /\ adb = Nil
    /\ run = NoRun
    /\ last = "none"
    /\ result = NoResult
    /\ faults = 0
    /\ workers = NoWorkers
    /\ matched = NoMatched
    /\ tokenized = NoTokenized
    /\ rebuild = NoRebuild
    /\ calls = NoCalls
    /\ agentLoaded = FALSE
    /\ stream = NoStream

SpecDegraded == InitDegraded /\ [][NextQuery]_vars

SpecDegradedAlgo == InitDegraded /\ [][NextAlgo]_vars

\* ------------------------------------------------------------- concurrent callers
\* RunAction is called from several goroutines; each call of QueryDescription
\* is a sequence of steps over the ActionDB it was called on.  Nothing is
\* locked.

\* the ActionDB a call works on: the agent's (agentActionDB), or the one that
\* was the agent's when a later Init replaced it
TheADB(c) == IF calls[c].live THEN adb ELSE calls[c].adb

\* the DataPoints array of generation g: the one in the index, or a replaced one
Array(g) == IF g = rebuild.gen THEN adb.VectorDB.DataPoints ELSE rebuild.old[g + 1]

\* a result slice shared by the calls of GetSimilarEntries
SimilarEntriesShared(c) ==
  LET busy == {d \in Callers : calls[d].pc = "scan"}
  IN calls[CHOOSE d \in busy : \A e \in busy : d <= e].similarEntries

\* the result slice of a call of GetSimilarEntries: its own
SimilarEntriesOf(c) == calls[c].similarEntries

\* RunAction: the agent is loaded, QueryDescription is called
QueryBegin(c, description, minimumScore) ==
  /\ agentLoaded
  /\ calls[c].pc = "idle"
  /\ calls' = [calls EXCEPT ![c] = [NoCall EXCEPT !.pc = "tokenize",
                                      !.description = description,
                                      !.minimumScore = minimumScore]]
  /\ UNCHANGED <<head, work, version, edits, checksum, artifact, adb, run, last, result,
                 faults, agentLoaded, rebuild, stream, tokenized, matched, workers>>

\* adb.Vocabulary.Tokenize(strings.ToLower(description))
QueryTokenize(c) ==
  /\ calls[c].pc = "tokenize"
  /\ LET a == TheADB(c)
     IN calls' = [calls EXCEPT ![c] =
          IF a.Vocabulary = Nil THEN [@ EXCEPT !.pc = "done", !.panic = TRUE]
          ELSE [@ EXCEPT !.pc = "encode",
                         !.tokens = Tokenize(ToLower(calls[c].description),
                                             a.Vocabulary.Language)]]
  /\ UNCHANGED <<head, work, version, edits, checksum, artifact, adb, run, last, result,
                 faults, agentLoaded, rebuild, stream, tokenized, matched, workers>>

\* adb.Vocabulary.CalculateTFIDFVector(tokens)
QueryEncode(c) ==
  /\ calls[c].pc = "encode"
  /\ LET a == TheADB(c)
     IN calls' = [calls EXCEPT ![c] =
          [@ EXCEPT !.pc = "similar",
                    !.query = CalculateTFIDFVector(a.Vocabulary, calls[c].tokens),
                    !.vocabularyAt = IF calls[c].live THEN rebuild.pc ELSE "none"]]
  /\ UNCHANGED <<head, work, version, edits, checksum, artifact, adb, run, last, result,
                 faults, agentLoaded, rebuild, stream, tokenized, matched, workers>>

\* adb.VectorDB.GetSimilarEntries, up to the range clause: the slice
\* db.DataPoints is evaluated once
QuerySimilar(c) ==
  /\ calls[c].pc = "similar"
  /\ LET a == TheADB(c)
     IN calls' = [calls EXCEPT ![c] =
          IF a.VectorDB = Nil
          THEN [@ EXCEPT !.pc = "done", !.panic = TRUE,
                         !.indexAt = IF calls[c].live THEN rebuild.pc ELSE "none"]
          ELSE [@ EXCEPT !.pc = "scan",
                         !.gen = IF calls[c].live THEN rebuild.gen ELSE calls[c].gen,
                         !.n = Len(a.VectorDB.DataPoints),
                         !.i = 0,
                         !.indexAt = IF calls[c].live THEN rebuild.pc ELSE "none"]]
  /\ UNCHANGED <<head, work, version, edits, checksum, artifact, adb, run, last, result,
                 faults, agentLoaded, rebuild, stream, tokenized, matched, workers>>

\* one iteration of the loop of GetSimilarEntries: the element is read when
\* the iteration begins
QueryScan(c) ==
  /\ calls[c].pc = "scan"
  /\ calls[c].i < calls[c].n
  /\ LET v == Array(calls[c].gen)[calls[c].i + 1]
         zero == v.Data = <<>> /\ calls[c].query # <<>>
     IN calls' = [calls EXCEPT ![c] =
          IF DotPanics(calls[c].query, v.Data)
          THEN [@ EXCEPT !.pc = "done", !.panic = TRUE, !.sawZero = zero]
          ELSE [@ EXCEPT !.i = @ + 1,
                         !.similarEntries =
                            IF Passes(CosineSimilarity(calls[c].query, v.Data),
                                      calls[c].minimumScore)
                            THEN Append(SimilarEntriesOf(c), calls[c].i)
                            ELSE SimilarEntriesOf(c)]]
  /\ UNCHANGED <<head, work, version, edits, checksum, artifact, adb, run, last, result,
                 faults, agentLoaded, rebuild, stream, tokenized, matched, workers>>

\* the loop of QueryDescription over the ids
QueryCollect(c) ==
  /\ calls[c].pc = "scan"
  /\ calls[c].i = calls[c].n
  /\ LET a == TheADB(c)
         indexes == calls[c].similarEntries
     IN calls' = [calls EXCEPT ![c] =
          IF \E k \in 1..Len(indexes) : indexes[k] + 1 > Len(a.ActionNames)
          THEN [@ EXCEPT !.pc = "done", !.panic = TRUE]
          ELSE [@ EXCEPT !.pc = "done",
                         !.actions = [k \in 1..Len(indexes) |->
                            a.Actions[a.ActionNames[indexes[k] + 1]].Description]]]
  /\ UNCHANGED <<head, work, version, edits, checksum, artifact, adb, run, last, result,
                 faults, agentLoaded, rebuild, stream, tokenized, matched, workers>>

\* QueryDescription returns (or the goroutine dies in its panic)
QueryReturn(c) ==
  /\ calls[c].pc = "done"
  /\ result' = [description |-> calls[c].description,
                minimumScore |-> calls[c].minimumScore,
                query |-> calls[c].query, indexes |-> calls[c].similarEntries,
                actions |-> calls[c].actions, panic |-> calls[c].panic, ran |-> TRUE]
  /\ last' = "query"
  /\ calls' = [calls EXCEPT ![c] = NoCall]
  /\ UNCHANGED <<head, work, version, edits, checksum, artifact, adb, run, faults,
                 agentLoaded, rebuild, stream, tokenized, matched, workers>>

\* the agent is started once
FirstInit ==
  /\ ~agentLoaded
  /\ AgentInit("none", "db")

NextConcurrent ==
  \/ FirstInit
  \/ \E c \in Callers, description \in QueryTexts, minimumScore \in MinimumScores :
       QueryBegin(c, description, minimumScore)
  \/ \E c \in Callers : QueryTokenize(c)
  \/ \E c \in Callers : QueryEncode(c)
  \/ \E c \in Callers : QuerySimilar(c)
  \/ \E c \in Callers : QueryScan(c)
  \/ \E c \in Callers : QueryCollect(c)
  \/ \E c \in Callers : QueryReturn(c)

SpecConcurrent == Init /\ [][NextConcurrent]_vars

\* ------------------------------------------------------------- rebuild under load
\* CacheInit runs again while the agent is loaded: on the agent's ActionDB, or
\* on a new one that a second Init has stored in agentActionDB.  Its build
\* branch assigns the fields of the ActionDB one statement at a time.

\* a Vocabulary and an Index published in one assignment
PublishBoth(a, vocabulary) ==
  [a EXCEPT !.Vocabulary = vocabulary, !.VectorDB = BuildVectorDB(a, vocabulary)]

\* adb.Vocabulary = nlp.NewVocabulary(descriptions, adb.Language)
PublishVocabulary(a, vocabulary) == [a EXCEPT !.Vocabulary = vocabulary]

\* the DataPoints array of the index is replaced: calls that hold it keep it
Retire(r) ==
  [r EXCEPT !.old = Append(@, IF adb.VectorDB = Nil THEN <<>>
                               ELSE adb.VectorDB.DataPoints),
            !.gen = @ + 1]

\* a call in flight keeps the ActionDB it was called on when agentActionDB is
\* assigned a new one
KeepReceiver(call) ==
  IF call.pc = "idle" \/ ~call.live THEN call
  ELSE [call EXCEPT !.live = FALSE, !.adb = adb,
                    !.gen = IF call.pc = "scan" THEN call.gen ELSE rebuild.gen]

\* CacheInit up to the build branch: checksum comparison, removal of the
\* invalidated artifact, the descriptions of the catalog
RebuildStart(fresh) ==
  /\ agentLoaded
  /\ rebuild.pc = "idle"
  /\ rebuild.rebuilds < MaxRebuilds
  /\ \E changedFiles \in Orders(Status) :
       LET a == IF fresh THEN NewActionDB(work.actions, adb.Language) ELSE adb
           out == CacheInit(a, changedFiles, "none", "db")
       IN /\ out.run.err = "none"
          /\ out.run.path = "build"
          /\ checksum' = [checksum EXCEPT ![GetVersion] = out.checksum]
          /\ artifact' = [artifact EXCEPT ![GetVersion][a.Language] = NoFile]
          /\ adb' = a
          /\ calls' = IF fresh THEN [c \in Callers |-> KeepReceiver(calls[c])] ELSE calls
          /\ rebuild' = [(IF fresh THEN Retire(rebuild) ELSE rebuild) EXCEPT
                           !.pc = "vocabulary", !.fresh = fresh,
                           !.descriptions = BuildDescriptions(a), !.i = 0,
                           !.before = IF fresh THEN Nil ELSE adb.VectorDB,
                           !.rebuilds = @ + 1]
          /\ run' = out.run
  /\ UNCHANGED <<head, work, version, edits, last, result, faults, agentLoaded, stream, tokenized, matched, workers>>

\* line 222
RebuildVocabulary ==
  /\ rebuild.pc = "vocabulary"
  /\ adb' = PublishVocabulary(adb, NewVocabulary(rebuild.descriptions, adb.Language))
  /\ rebuild' = [rebuild EXCEPT !.pc = "index"]
  /\ UNCHANGED <<head, work, version, edits, checksum, artifact, run, last, result,
                 faults, agentLoaded, calls, stream, tokenized, matched, workers>>

\* line 223
RebuildIndex ==
  /\ rebuild.pc = "index"
  /\ adb' = [adb EXCEPT !.VectorDB = NewVectorDB(Len(adb.Vocabulary.Terms))]
  /\ rebuild' = [Retire(rebuild) EXCEPT !.pc = "make"]
  /\ UNCHANGED <<head, work, version, edits, checksum, artifact, run, last, result,
                 faults, agentLoaded, calls, stream, tokenized, matched, workers>>

\* a DataPoint as make leaves it
ZeroDataPoint == [ID |-> 0, Data |-> <<>>]

\* line 226
RebuildMake ==
  /\ rebuild.pc = "make"
  /\ adb' = [adb EXCEPT !.VectorDB.DataPoints =
               [k \in 1..Cardinality(DOMAIN adb.Actions) |-> ZeroDataPoint]]
  /\ rebuild' = [Retire(rebuild) EXCEPT !.pc = "fill", !.i = 0]
  /\ UNCHANGED <<head, work, version, edits, checksum, artifact, run, last, result,
                 faults, agentLoaded, calls, stream, tokenized, matched, workers>>

\* lines 227-230, one iteration
RebuildFill ==
  /\ rebuild.pc = "fill"
  /\ rebuild.i < Len(adb.VectorDB.DataPoints)
  /\ adb' = [adb EXCEPT !.VectorDB.DataPoints[rebuild.i + 1] =
               [ID |-> rebuild.i,
                Data |-> CalculateTFIDFVector(adb.Vocabulary,
                           Tokenize(ToLower(rebuild.descriptions[rebuild.i + 1]),
                                    adb.Language))]]
  /\ rebuild' = [rebuild EXCEPT !.i = @ + 1]
  /\ UNCHANGED <<head, work, version, edits, checksum, artifact, run, last, result,
                 faults, agentLoaded, calls, stream, tokenized, matched, workers>>

\* lines 232-250: the artifact is written, CacheInit returns
RebuildSave ==
  /\ rebuild.pc = "fill"
  /\ rebuild.i = Len(adb.VectorDB.DataPoints)
  /\ artifact' = [artifact EXCEPT ![GetVersion][adb.Language] =
                    VocabularySaveToBinaryStream(adb.Vocabulary)
                      \o SaveIndex("db", adb.VectorDB)]
  /\ rebuild' = [rebuild EXCEPT !.pc = "idle"]
  /\ last' = "init"
  /\ result' = NoResult
  /\ UNCHANGED <<head, work, version, edits, checksum, adb, run, faults, agentLoaded,
                 calls, stream, tokenized, matched, workers>>

\* one caller is enough to meet a rebuild
RebuildCallers == {1}

\* the catalog is edited while the agent is at rest
EditAtRest(n, d) ==
  /\ rebuild.pc = "idle"
  /\ \A c \in Callers : calls[c].pc = "idle"
  /\ EditAction(n, d)

NextRebuild ==
  \/ \E d \in Descriptions : EditAtRest("y", d)
  \/ FirstInit
  \/ \E fresh \in BOOLEAN : RebuildStart(fresh)
  \/ RebuildVocabulary
  \/ RebuildIndex
  \/ RebuildMake
  \/ RebuildFill
  \/ RebuildSave
  \/ \E c \in RebuildCallers, description \in QueryTexts :
       QueryBegin(c, description, RZero)
  \/ \E c \in RebuildCallers : QueryTokenize(c)
  \/ \E c \in RebuildCallers : QueryEncode(c)
  \/ \E c \in RebuildCallers : QuerySimilar(c)
  \/ \E c \in RebuildCallers : QueryScan(c)
  \/ \E c \in RebuildCallers : QueryCollect(c)
  \/ \E c \in RebuildCallers : QueryReturn(c)

SpecRebuild == Init /\ [][NextRebuild]_vars

\* ------------------------------------------------------------- the tokenizer alone
\* Tokenize is called as NewVocabulary and QueryDescription call it, on the
\* lower-cased text, for texts over a small alphabet and for a language tag
\* that the stemmer knows and one that it does not know.
TokenAlphabet == {97, 115, 32, 65}
TokenTexts == UNION {[1..n -> TokenAlphabet] : n \in 0..MaxTextLen}
TokenLanguages == {"english", "klingon"}

TokenizeCall(text, language) ==
  /\ tokenized' = [ran |-> TRUE, text |-> text, language |-> language,
                   out |-> Tokenize(ToLower(text), language)]
  /\ UNCHANGED <<head, work, version, edits, checksum, artifact, adb, run, last, result,
                 faults, agentLoaded, calls, rebuild, stream, matched, workers>>

NextTokenize == \E text \in TokenTexts, language \in TokenLanguages : TokenizeCall(text, language)

SpecTokenize == Init /\ [][NextTokenize]_vars

\* ------------------------------------------------------------- the workers
\* A front-end hands each line it reads to DispatchInput, which sends it on
\* the unbuffered inputChannel; processInput receives and handles the lines
\* one at a time, and processOutput passes what is sent on the unbuffered
\* outputChannel to the writer.

\* the calls of DispatchInput one front-end makes
MaxDispatches == 4

\* the lines a front-end sends
Inputs == {"hello", "exit"}

\* what Inform sends on outputChannel: the message of the language model,
\* which is any text, or the error text followed by the empty message
Replies == {<<"reply">>, <<"exit">>, <<"error interacting with LLM", "">>}

\* DispatchInput is called: the caller is at the send on inputChannel
DispatchInput(userInput) ==
  /\ agentLoaded
  /\ workers.front = "idle"
  /\ workers.dispatched < MaxDispatches
  /\ workers' = [workers EXCEPT !.front = "sending", !.msg = userInput,
                                !.dispatched = @ + 1]
  /\ UNCHANGED <<head, work, version, edits, checksum, artifact, adb, run, last, result,
                 faults, agentLoaded, calls, rebuild, tokenized, matched, stream>>

\* processInput receives a line, which lets DispatchInput return; on "exit"
\* the loop is left and the goroutine ends
processInput ==
  /\ workers.front = "sending"
  /\ workers.input = "receiving"
  /\ workers' = [workers EXCEPT !.front = "idle", !.msg = "",
                                !.input = IF workers.msg = "exit" THEN "stopped"
                                          ELSE "processing"]
  /\ UNCHANGED <<head, work, version, edits, checksum, artifact, adb, run, last, result,
                 faults, agentLoaded, calls, rebuild, tokenized, matched, stream>>

\* process: parseActions fails or finds actions, and process returns; or it
\* finds none, and Inform goes on to send on outputChannel
process ==
  /\ workers.input = "processing"
  /\ \/ workers' = [workers EXCEPT !.input = "receiving"]
     \/ \E reply \in Replies :
          workers' = [workers EXCEPT !.input = "informing", !.pending = reply]
  /\ UNCHANGED <<head, work, version, edits, checksum, artifact, adb, run, last, result,
                 faults, agentLoaded, calls, rebuild, tokenized, matched, stream>>

\* processOutput receives a message Inform sends; on "exit" the loop is left
\* and the goroutine ends, otherwise the message goes to writerFunc.  After
\* its last send Inform returns and processInput receives again.
processOutput ==
  /\ workers.input = "informing"
  /\ workers.output = "receiving"
  /\ workers' = [workers EXCEPT
                   !.pending = Tail(@),
                   !.output = IF Head(workers.pending) = "exit" THEN "stopped"
                              ELSE "receiving",
                   !.input = IF Len(workers.pending) = 1 THEN "receiving"
                             ELSE "informing"]
  /\ UNCHANGED <<head, work, version, edits, checksum, artifact, adb, run, last, result,
                 faults, agentLoaded, calls, rebuild, tokenized, matched, stream>>

NextDispatch ==
  \/ FirstInit
  \/ \E userInput \in Inputs : DispatchInput(userInput)
  \/ processInput
  \/ process
  \/ processOutput

\* a goroutine that can take a step is scheduled in the end
SpecDispatch ==
  /\ Init /\ [][NextDispatch]_vars
  /\ WF_vars(processInput) /\ WF_vars(process) /\ WF_vars(processOutput)

\* ------------------------------------------------------- the matcher alone
\* the longest pattern and the longest string given to Match
MaxMatchLen == 2

STAR == 42

\* Match: an exhausted pattern accepts whatever is left of the string
RECURSIVE Match(_, _)
Match(pattern, str) ==
  IF pattern = <<>> THEN TRUE
  ELSE IF pattern = <<STAR>> THEN TRUE
  ELSE IF pattern = str THEN TRUE
  ELSE IF pattern[1] = STAR
       THEN \E i \in 0..Len(str) : Match(Tail(pattern), SubSeq(str, i + 1, Len(str)))
  ELSE IF str = <<>> THEN FALSE
  ELSE IF pattern[1] = str[1] THEN Match(Tail(pattern), Tail(str))
  ELSE FALSE

MatchAll(pattern, strings) ==
  LET matches(str) == Match(pattern, str)
  IN SelectSeq(strings, matches)

\* '*', 'a' and '.'
MatchAlphabet == {STAR, 97, 46}
MatchPatterns == UNION {[1..n -> MatchAlphabet] : n \in 0..MaxMatchLen}
MatchStrings == UNION {[1..n -> MatchAlphabet \ {STAR}] : n \in 0..MaxMatchLen}

\* one call per behaviour: the function keeps no state between calls
MatchAllCall(pattern, strings) ==
  /\ ~matched.ran
  /\ matched' = [ran |-> TRUE, pattern |-> pattern, strings |-> strings,
                 out |-> MatchAll(pattern, strings)]
  /\ UNCHANGED <<head, work, version, edits, checksum, artifact, adb, run, last, result,
                 faults, agentLoaded, calls, rebuild, tokenized, stream, workers>>

NextMatch ==
  \E pattern \in MatchPatterns, s1 \in MatchStrings, s2 \in MatchStrings :
    MatchAllCall(pattern, <<s1, s2>>)

SpecMatch == Init /\ [][NextMatch]_vars

\* ------------------------------------------------------------- the first agent
\* The first agent keeps the terms and a map from action name to vector in
\* package variables (termsCache, actionVectorsCache) and encodes the artifact
\* inline in storagePrepareCache.  Here adb.Vocabulary.Terms is termsCache and
\* adb.VectorDB.Vectors is actionVectorsCache.


\* storageLoadActionStorage: the definition of an action, when its file exists
storageLoadActionStorage(n) == GetAction(n)

\* the descriptions of the configured actions that load, in configured order
StorageDescriptions(actions) ==
  LET loaded == SelectSeq(actions, LAMBDA n : storageLoadActionStorage(n).ok)
  IN [i \in 1..Len(loaded) |-> storageLoadActionStorage(loaded[i]).Description]

\* termsCache of the rebuild: idf divides the number of configured actions
StorageTerms(actions, language) ==
  LET docs == StorageDescriptions(actions)
      terms == SortStrings(UNION {SeqRange(Tokenize(ToLower(docs[i]), language)) :
                                    i \in 1..Len(docs)})
      idf(term) == LET docCount == DocFreq(docs, term)
                   IN IF docCount # 0 THEN Rat(Len(actions), docCount) ELSE RZero
  IN [i \in 1..Len(terms) |-> [Token |-> terms[i], IDF |-> idf(terms[i])]]

\* actionVectorsCache of the rebuild
StorageVectors(actions, language, terms) ==
  [n \in {m \in SeqRange(actions) : storageLoadActionStorage(m).ok} |->
     CalculateTFIDFVector([Language |-> language, Terms |-> terms],
       Tokenize(ToLower(storageLoadActionStorage(n).Description), language))]

\* the artifact written: the terms, then the entries of actionVectorsCache in
\* the order the range over the map yields them
StorageSave(terms, vectors, mapOrder) ==
  VocabularySaveToBinaryStream([Terms |-> terms])
    \o WriteInt32(Cardinality(DOMAIN vectors))
    \o Flatten([i \in 1..Len(mapOrder) |->
                  WriteInt32(Len(NameBytes(mapOrder[i])))
                    \o WriteString(NameBytes(mapOrder[i]))
                    \o WriteInt32(Len(vectors[mapOrder[i]]))
                    \o Flatten([j \in 1..Len(vectors[mapOrder[i]]) |->
                                  WriteFloat64(vectors[mapOrder[i]][j])])])

\* one entry of an artifact at offset p: name length, name, vector length, values
StorageReadEntry(f, p) ==
  LET actionNameLength == ReadInt32(f, p)
      actionName == Read(f, actionNameLength.pos, actionNameLength.v)
      vectorLength == ReadInt32(f, actionName.pos)
      vector == ReadValues(f, vectorLength.pos, vectorLength.v)
  IN [ok |-> actionNameLength.ok /\ actionName.ok /\ vectorLength.ok /\ vector.ok,
      v |-> [name |-> actionName.v, vector |-> vector.v],
      pos |-> vector.pos]

\* the entries of an artifact: n still to read at offset p
RECURSIVE StorageReadEntries(_, _, _)
StorageReadEntries(f, p, n) ==
  IF n <= 0 THEN [ok |-> TRUE, v |-> <<>>, pos |-> p]
  ELSE LET entry == StorageReadEntry(f, p)
       IN IF ~entry.ok THEN [ok |-> FALSE, v |-> <<>>, pos |-> entry.pos]
          ELSE LET rest == StorageReadEntries(f, entry.pos, n - 1)
               IN [ok |-> rest.ok, v |-> <<entry.v>> \o rest.v, pos |-> rest.pos]

\* actionVectorsCache after the entries read: a later entry of the same name
\* replaces an earlier one, and an entry whose action file does not exist is
\* skipped
StorageVectorsOf(entries) ==
  LET known == {n \in DOMAIN work.files :
                  /\ Stat(n)
                  /\ \E i \in 1..Len(entries) : entries[i].name = NameBytes(n)}
      lastOf(n) == CHOOSE i \in 1..Len(entries) :
                     /\ entries[i].name = NameBytes(n)
                     /\ \A j \in (i + 1)..Len(entries) : entries[j].name # NameBytes(n)
  IN [n \in known |-> entries[lastOf(n)].vector]

\* the load branch after the terms: the number of entries, then the entries
StorageLoadEntries(f, terms, numActions) ==
  IF terms.v = Nil \/ ~numActions.ok THEN [ok |-> FALSE, v |-> <<>>]
  ELSE StorageReadEntries(f, numActions.pos, numActions.v)

StorageLoaded(terms, entries) ==
  IF ~entries.ok THEN [ok |-> FALSE, terms |-> <<>>, vectors |-> <<>>]
  ELSE [ok |-> TRUE, terms |-> terms.v.Terms, vectors |-> StorageVectorsOf(entries.v)]

StorageLoadTerms(f, terms) ==
  StorageLoaded(terms, StorageLoadEntries(f, terms, ReadInt32(f, terms.pos)))

\* the load branch: termsCache and actionVectorsCache read from the artifact
StorageLoad(f) == StorageLoadTerms(f, NewVocabularyFromBinaryStream(f, 0, ""))

\* what a run of the cache protocol found, before the artifact is built or loaded
CacheInfo(stored, currentChecksum, invalidateCache, old, kept) ==
  [err |-> "none", localChanges |-> HasLocalChanges,
   hadChecksum |-> stored # NoFile, current |-> currentChecksum,
   invalidateCache |-> invalidateCache,
   removed |-> invalidateCache /\ old # NoFile /\ kept = NoFile,
   path |-> "none", hadArtifact |-> old # NoFile]

\* the package variables of the first agent, as an ActionDB
StorageDB(actions, language, terms, vectors) ==
  [Actions |-> [n \in DOMAIN vectors |->
                  [Description |-> storageLoadActionStorage(n).Description]],
   ActionNames |-> actions, Language |-> language,
   Vocabulary |-> [Language |-> language, Terms |-> terms],
   VectorDB |-> [Vectors |-> vectors]]

\* the rebuild branch of storagePrepareCache
StorageBuild(actions, language, mapOrder, terms) ==
  [artifact |-> StorageSave(terms, StorageVectors(actions, language, terms), mapOrder),
   adb |-> StorageDB(actions, language, terms, StorageVectors(actions, language, terms))]

\* the end of storagePrepareCache: rebuild when no artifact is left, else load
StorageFinish(actions, language, mapOrder, checksumAfter, kept, info, loaded) ==
  IF kept = NoFile
  THEN LET built == StorageBuild(actions, language, mapOrder,
                                 StorageTerms(actions, language))
       IN [checksum |-> checksumAfter, artifact |-> built.artifact, adb |-> built.adb,
           run |-> [info EXCEPT !.path = "build"]]
  ELSE IF ~loaded.ok
  THEN [checksum |-> checksumAfter, artifact |-> kept, adb |-> Nil,
        run |-> [info EXCEPT !.err = "error reading vocabulary file", !.path = "load"]]
  ELSE [checksum |-> checksumAfter, artifact |-> kept,
        adb |-> StorageDB(actions, language, loaded.terms, loaded.vectors),
        run |-> [info EXCEPT !.path = "load"]]

\* storagePrepareCache for the configured actions, with the order in which the
\* git status lists the changed action files and the order in which the range
\* over actionVectorsCache yields its keys
storagePrepareCache(actions, language, changedFiles, mapOrder) ==
  LET currentChecksum == calculateChecksum(changedFiles)
      stored == checksum[GetVersion]
      invalidateCache == HasLocalChanges /\ InvalidateCache(stored, currentChecksum)
      old == artifact[GetVersion][language]
      kept == IF invalidateCache THEN RemoveAll(old, "none") ELSE old
      info == CacheInfo(stored, currentChecksum, invalidateCache, old, kept)
  IN IF HasLocalChanges /\ stored # NoFile /\ ~ReadInt64(stored, 0).ok
     THEN [checksum |-> stored, artifact |-> old, adb |-> Nil,
           run |-> [info EXCEPT !.err = "error reading checksum file"]]
     ELSE StorageFinish(actions, language, mapOrder,
                        IF HasLocalChanges THEN ChecksumAfter(stored, currentChecksum)
                        ELSE stored,
                        kept, info, StorageLoad(kept))

\* storageInit: the configuration is read, then storagePrepareCache runs
StorageInit ==
  \E language \in Languages, changedFiles \in Orders(Status),
     mapOrder \in Orders({n \in SeqRange(work.actions) : storageLoadActionStorage(n).ok}) :
    LET out == storagePrepareCache(work.actions, language, changedFiles, mapOrder)
    IN /\ checksum' = [checksum EXCEPT ![GetVersion] = out.checksum]
       /\ artifact' = [artifact EXCEPT ![GetVersion][language] = out.artifact]
       /\ adb' = out.adb
       /\ run' = out.run
       /\ last' = "init"
       /\ result' = NoResult
       /\ UNCHANGED <<head, work, version, edits, faults, stream, agentLoaded, calls, rebuild, tokenized, matched, workers>>

NextStorage ==
  \/ \E n \in Names, d \in Descriptions : EditAction(n, d)
  \/ \E list \in ConfigLists : SetConfig(list)
  \/ Commit
  \/ Revert
  \/ StorageInit

SpecStorage == Init /\ [][NextStorage]_vars

\* the first agent on a catalog with bad definition files
NextDegradedStorage == StorageInit

SpecDegradedStorage == InitDegraded /\ [][NextDegradedStorage]_vars

\* ------------------------------------------------------------- BinaryFileStream
\* A stream is an os.File opened for reading and writing, without O_APPEND and
\* without O_TRUNC: a write replaces the bytes at the offset and extends the
\* file, a gap left by a seek past the end reads as zero bytes.
Int32s == {0, 1, -2, 258, 2147483647, -2147483647 - 1}
Int64s == {<<0, 0, 0, 0>>, <<513, 0, 1, 0>>, <<65535, 65535, 65535, -1>>,
           <<65535, 65535, 65535, 32767>>, <<0, 0, 0, -32768>>}
Float64s == {<<0, 1>>, <<3, 2>>, <<-1, 3>>}
Strings == {<<>>, <<97>>, <<97, 0, 255>>}
StringLengths == {0, 1, 3}
SeekStart == 0
SeekCurrent == 1
SeekEnd == 2
Seeks == {<<0, SeekStart>>, <<2, SeekStart>>, <<-4, SeekCurrent>>, <<-8, SeekCurrent>>,
          <<-1, SeekCurrent>>, <<-3, SeekCurrent>>, <<-8, SeekEnd>>, <<0, SeekEnd>>}
StreamFiles == {<<>>, <<255, 255, 255, 255, 255, 255, 255, 255, 255>>}
StreamOffsets == {0, 2}

\* file.Write(b) at offset p
Overwrite(f, p, b) ==
  IF b = <<>> THEN f
  ELSE [i \in 1..(IF Len(f) > p + Len(b) THEN Len(f) ELSE p + Len(b)) |->
          IF i > p /\ i <= p + Len(b) THEN b[i - p]
          ELSE IF i <= Len(f) THEN f[i] ELSE 0]

\* a write of the bytes that encode value
StreamWrite(kind, value, bytes) ==
  /\ stream.ops < MaxStreamOps
  /\ stream' = [stream EXCEPT !.file = Overwrite(stream.file, stream.pos, bytes),
                              !.pos = stream.pos + Len(bytes),
                              !.ops = stream.ops + 1,
                              !.op = "write",
                              !.kind = kind, !.value = value, !.at = stream.pos]
  /\ UNCHANGED <<head, work, version, edits, checksum, artifact, adb, run, last, result,
                 faults, agentLoaded, calls, rebuild, tokenized, matched, workers>>

\* a read that gave r: the offset never moves back
StreamRead(kind, r) ==
  /\ stream.ops < MaxStreamOps
  /\ stream' = [stream EXCEPT !.pos = IF r.pos < stream.pos THEN stream.pos ELSE r.pos,
                              !.ops = stream.ops + 1,
                              !.op = "read",
                              !.got = [kind |-> kind, ok |-> r.ok, v |-> r.v,
                                       at |-> stream.pos]]
  /\ UNCHANGED <<head, work, version, edits, checksum, artifact, adb, run, last, result,
                 faults, agentLoaded, calls, rebuild, tokenized, matched, workers>>

StreamWriteInt32(i) == StreamWrite("int32", i, WriteInt32(i))
StreamWriteInt64(i) == StreamWrite("int64", i, WriteInt64(i))
StreamWriteFloat64(f) == StreamWrite("float64", f, WriteFloat64(f))
StreamWriteString(s) == StreamWrite("string", s, WriteString(s))
StreamReadInt32 == StreamRead("int32", ReadInt32(stream.file, stream.pos))
StreamReadInt64 == StreamRead("int64", ReadInt64(stream.file, stream.pos))
StreamReadFloat64 == StreamRead("float64", ReadFloat64(stream.file, stream.pos))
StreamReadString(n) == StreamRead("string", Read(stream.file, stream.pos, n))

\* Seek(offset, whence): an offset before the start of the file is an error
\* and leaves the stream where it was
StreamSeek(offset, whence) ==
  LET base == IF whence = SeekStart THEN 0
              ELSE IF whence = SeekCurrent THEN stream.pos ELSE Len(stream.file)
  IN /\ stream.ops < MaxStreamOps
     /\ stream' = [stream EXCEPT !.pos = IF base + offset < 0 THEN stream.pos
                                          ELSE base + offset,
                                 !.ops = stream.ops + 1,
                                 !.op = "seek"]
     /\ UNCHANGED <<head, work, version, edits, checksum, artifact, adb, run, last, result,
                    faults, agentLoaded, calls, rebuild, tokenized, matched, workers>>

InitStream ==
  /\ head = InitialTree
  /\ work = InitialTree
  /\ version = 0
  /\ edits = 0
  /\ checksum = [v \in Versions |-> NoFile]
  /\ artifact = [v \in Versions |-> [l \in CacheLanguages |-> NoFile]]
  /\ adb = Nil
  /\ run = NoRun
  /\ last = "none"
  /\ result = NoResult
  /\ faults = 0
  /\ workers = NoWorkers
  /\ matched = NoMatched
  /\ tokenized = NoTokenized
  /\ rebuild = NoRebuild
  /\ calls = NoCalls
  /\ agentLoaded = FALSE
  /\ \E f \in StreamFiles, p \in StreamOffsets :
       stream = [NoStream EXCEPT !.file = f, !.pos = p]

NextStream ==
  \/ \E i \in Int32s : StreamWriteInt32(i)
  \/ \E i \in Int64s : StreamWriteInt64(i)
  \/ \E f \in Float64s : StreamWriteFloat64(f)
  \/ \E s \in Strings : StreamWriteString(s)
  \/ StreamReadInt32
  \/ StreamReadInt64
  \/ StreamReadFloat64
  \/ \E n \in StringLengths : StreamReadString(n)
  \/ \E seek \in Seeks : StreamSeek(seek[1], seek[2])

SpecStream == InitStream /\ [][NextStream]_vars

\* ------------------------------------------------------------- properties
\* the last operation was a CacheInit that returned no error
InitSucceeded == last = "init" /\ run.err = "none"

\* what the rebuild branch makes of the catalog as it is now
FreshVocabulary == BuildVocabulary(NewActionDB(work.actions, adb.Language))
FreshVectorDB == BuildVectorDB(NewActionDB(work.actions, adb.Language), FreshVocabulary)

\* the pair in use holds the terms and the entries of a fresh build
InUseIsFresh ==
  /\ adb.Vocabulary # Nil
  /\ adb.VectorDB # Nil
  /\ adb.Vocabulary.Terms = FreshVocabulary.Terms
  /\ adb.VectorDB.DataPoints = FreshVectorDB.DataPoints

\* C1: after every successful CacheInit, whatever edits, commits, reverts,
\* changes of the action list and earlier CacheInit runs came before, the
\* Vocabulary and Index in use equal a fresh build from the catalog's current
\* descriptions; an artifact whose corpus has changed is never the one loaded.
C1_InUseEqualsFreshBuild == InitSucceeded => InUseIsFresh

\* a CacheInit loaded an artifact and a CacheInit built one
C1_Loaded == InitSucceeded /\ run.path = "load" /\ InUseIsFresh

\* the artifact of the generation the agent runs on
ActiveArtifact == artifact[version][adb.Language]

\* the checksum record of the running generation holds the checksum the last
\* CacheInit computed
RecordIsCurrent == checksum[version] = WriteInt64(run.current)

\* the last CacheInit found local changes and no checksum record
FirstRun == InitSucceeded /\ run.localChanges /\ ~run.hadChecksum

\* the last CacheInit found local changes and a record that differs
Mismatch == InitSucceeded /\ run.localChanges /\ run.hadChecksum /\ run.invalidateCache

\* C2: with local changes and no checksum record, the first CacheInit writes
\* the record with the current checksum and invalidates, removing and
\* rebuilding the artifact; a CacheInit repeated right after it, on the same
\* content, does not invalidate.
C2_FirstRunThenRepeat ==
  [][/\ FirstRun' => (RecordIsCurrent' /\ run'.invalidateCache /\ run'.path = "build")
     /\ (FirstRun /\ last' = "init") => ~run'.invalidateCache]_vars

\* a CacheInit found local changes and an equal record, and loaded
C2_RepeatKept ==
  InitSucceeded /\ run.localChanges /\ run.hadChecksum /\ ~run.invalidateCache
    /\ run.path = "load"

\* C3: a CacheInit that finds a differing checksum record deletes the artifact
\* and rewrites the record with the current checksum in the same run, and the
\* next CacheInit on unchanged content does not invalidate again.
C3_MismatchRewritesRecord ==
  [][/\ Mismatch' => (RecordIsCurrent' /\ run'.path = "build")
     /\ (Mismatch /\ last' = "init") => ~run'.invalidateCache]_vars

\* a CacheInit found a differing record, removed the artifact and rebuilt
C3_MismatchSeen == Mismatch /\ run.removed /\ run.path = "build"

\* the artifact on disk is the one just written from the pair in use
Persisted ==
  /\ adb.Vocabulary # Nil
  /\ adb.VectorDB # Nil
  /\ ActiveArtifact = VocabularySaveToBinaryStream(adb.Vocabulary)
                         \o VectorDBSaveToBinaryStream(adb.VectorDB)

\* C4: a CacheInit that finds no artifact, or that invalidates, rebuilds in
\* the same call and ends with a persisted artifact; it never loads the
\* artifact it declared stale, also when removing the stale file fails.
C4_StaleIsRebuilt ==
  (InitSucceeded /\ (~run.hadArtifact \/ run.invalidateCache))
    => (run.path = "build" /\ Persisted)

\* a CacheInit declared an existing artifact stale
C4_DeclaredStale == InitSucceeded /\ run.hadArtifact /\ run.invalidateCache

\* the terms and the entries of the ActionDB b are those of the ActionDB a
SamePair(a, b) ==
  /\ b.Vocabulary # Nil
  /\ b.VectorDB # Nil
  /\ b.Vocabulary.Terms = a.Vocabulary.Terms
  /\ b.VectorDB.DataPoints = a.VectorDB.DataPoints

\* C5: a vocabulary and index saved to the artifact and loaded back have the
\* same tokens in the same order, the same idf per term and the same id and
\* vector components per entry, for every pair the build can produce: the
\* CacheInit that loads what the CacheInit before it built and saved ends
\* with the pair that one had.
C5_LoadGivesWhatWasSaved ==
  [][(InitSucceeded /\ run.path = "build" /\ last' = "init" /\ run'.path = "load")
       => SamePair(adb, adb')]_vars

\* a CacheInit loaded an artifact of a clean catalog
C5_LoadedBack == InitSucceeded /\ run.path = "load" /\ ~run.localChanges /\ run.hadArtifact

\* the vocabulary of the artifact f reads, and the width stored for the index
\* is not its term count
StoredWidthDisagrees(f) ==
  LET v == NewVocabularyFromBinaryStream(f, 0, "english")
      w == ReadInt32(f, v.pos)
  IN f # NoFile /\ v.v # Nil /\ w.ok /\ w.v # Len(v.v.Terms)

\* some entry vector of the ActionDB a is not as long as its term list
UnequalWidths(a) ==
  /\ a.Vocabulary # Nil
  /\ a.VectorDB # Nil
  /\ \E i \in 1..Len(a.VectorDB.DataPoints) :
       Len(a.VectorDB.DataPoints[i].Data) # Len(a.Vocabulary.Terms)

\* C6: loading an artifact whose stored vector width disagrees with its stored
\* term count fails with a Corrupt error that CacheInit observes; the load
\* never ends with a vocabulary and index of unequal widths.
C6_WidthMismatchIsCorrupt ==
  (last = "init" /\ run.path = "load")
    => /\ StoredWidthDisagrees(ActiveArtifact) => run.err = "corrupt"
       /\ ~UnequalWidths(adb)

\* a CacheInit loaded an artifact whose stored width is not its term count
C6_MismatchLoaded ==
  last = "init" /\ run.path = "load" /\ StoredWidthDisagrees(ActiveArtifact)

\* a codec read of the artifact f fails before the end of the load
Unreadable(f) ==
  LET v == NewVocabularyFromBinaryStream(f, 0, "english")
  IN f # NoFile /\ (v.v = Nil \/ NewVectorDBFromBinaryStream(f, v.pos) = Nil)

\* C7: a CacheInit that meets an artifact on which a codec read fails (cut
\* short, or with length fields that do not match) treats it as corrupt and
\* rebuilds it; it does not abort, and no successful CacheInit leaves the
\* Vocabulary or the Index nil.
C7_CorruptIsRebuilt ==
  [][/\ InitSucceeded' => (adb'.Vocabulary # Nil /\ adb'.VectorDB # Nil)
     /\ (last' = "init" /\ Unreadable(artifact[version][adb'.Language]))
          => (run'.err = "none" /\ run'.path = "build" /\ Persisted')]_vars

\* a CacheInit took the load branch on an artifact that cannot be read
C7_UnreadableLoaded == last = "init" /\ run.path = "load" /\ Unreadable(ActiveArtifact)

\* the last operation was a QueryDescription that returned
Answered == last = "query" /\ result.ran /\ ~result.panic

\* the score of the entry with id i (its position in DataPoints, from 0)
Score(i) == CosineSimilarity(result.query, adb.VectorDB.DataPoints[i + 1].Data)

\* the ids of the entries whose score reaches the minimum score
Qualifying ==
  {i \in 0..(Len(adb.VectorDB.DataPoints) - 1) : Passes(Score(i), result.minimumScore)}

\* ids holds each qualifying id once, higher scores first and equal scores in
\* insertion order
Ranked(ids) ==
  /\ SeqRange(ids) = Qualifying
  /\ Len(ids) = Cardinality(Qualifying)
  /\ \A i, j \in 1..Len(ids) :
       i < j => \/ ~RLeq(Score(ids[i]), Score(ids[j]))
                \/ (Score(ids[i]) = Score(ids[j]) /\ ids[i] < ids[j])

\* C8: the similarity query returns exactly the ids of the entries whose
\* cosine similarity with the query vector is at least minimumScore, by
\* descending score, entries of equal score in insertion order.
C8_RankedByScore == Answered => Ranked(result.indexes)

\* a query returned two entries of different scores
C8_TwoScores ==
  /\ Answered
  /\ Len(result.indexes) = 2
  /\ Score(result.indexes[1]) # Score(result.indexes[2])

\* C9: whatever the index and the query vector (a zero query vector and zero
\* entry vectors included), a query with minimumScore 0.0 returns every entry
\* and a query with minimumScore 1.01 returns none.
C9_ZeroAllAndAboveOneNone ==
  Answered =>
    /\ result.minimumScore = <<0, 1>> =>
          (/\ SeqRange(result.indexes) = 0..(Len(adb.VectorDB.DataPoints) - 1)
           /\ Len(result.indexes) = Len(adb.VectorDB.DataPoints))
    /\ result.minimumScore = <<101, 100>> => result.indexes = <<>>

\* a query with minimumScore 0.0 on an index of two entries, one of them a
\* zero vector and the other not orthogonal to the query
C9_ZeroScoreReturned ==
  /\ Answered
  /\ result.minimumScore = <<0, 1>>
  /\ Len(adb.VectorDB.DataPoints) = 2
  /\ \E i \in 0..1 : Score(i) = RZero /\ Score(1 - i) # RZero
  /\ \E i \in 1..2 : \A k \in 1..Len(adb.VectorDB.DataPoints[i].Data) :
        adb.VectorDB.DataPoints[i].Data[k][1] = 0

\* C10: after every CacheInit, the index built or loaded, the declared width
\* of the index is the term count of the vocabulary and the length of every
\* entry vector.
C10_WidthIsTermCount ==
  InitSucceeded =>
    /\ adb.VectorDB.VectorSize = Len(adb.Vocabulary.Terms)
    /\ \A i \in 1..Len(adb.VectorDB.DataPoints) :
         Len(adb.VectorDB.DataPoints[i].Data) = adb.VectorDB.VectorSize

\* a CacheInit loaded an index with at least one term
C10_LoadedIndex ==
  InitSucceeded /\ run.path = "load" /\ Len(adb.Vocabulary.Terms) > 0

\* the tokens of terms are pairwise distinct and in strictly ascending order
StrictlyAscending(terms) ==
  /\ \A i \in 1..(Len(terms) - 1) : StrLess(terms[i].Token, terms[i + 1].Token)
  /\ \A i, j \in 1..Len(terms) : i # j => terms[i].Token # terms[j].Token

\* C11: the terms of a built vocabulary are pairwise distinct and in strictly
\* ascending lexicographic order, and the term sequence a CacheInit loads from
\* the saved artifact is the sequence the build before it had, token by token
\* and position by position.
C11_TermsSortedAndKept ==
  [][/\ (InitSucceeded' /\ run'.path = "build") => StrictlyAscending(adb'.Vocabulary.Terms)
     /\ (run.err = "none" /\ run.path = "build" /\ last' = "init" /\ run'.path = "load")
          => /\ adb'.Vocabulary # Nil
             /\ Len(adb'.Vocabulary.Terms) = Len(adb.Vocabulary.Terms)
             /\ \A i \in 1..Len(adb.Vocabulary.Terms) :
                  adb'.Vocabulary.Terms[i].Token = adb.Vocabulary.Terms[i].Token]_vars

\* a CacheInit loaded a vocabulary of three terms
C11_LoadedThreeTerms ==
  InitSucceeded /\ run.path = "load" /\ adb.Vocabulary # Nil /\ Len(adb.Vocabulary.Terms) = 3

\* C12: two rebuilds from the same unchanged catalog (same entries in the same
\* order, same language) write byte-identical artifacts: when a run that
\* rebuilt is followed, with nothing edited in between, by a run that rebuilds
\* again, the artifact on disk is the same bytes after both.
C12_RebuildsAreIdentical ==
  [][(InitSucceeded /\ run.path = "build" /\ InitSucceeded' /\ run'.path = "build"
        /\ adb'.Language = adb.Language)
       => artifact'[version][adb.Language] = artifact[version][adb.Language]]_vars

\* a run removed an artifact of two entries and rebuilt it
C12_RebuiltTwoEntries ==
  /\ InitSucceeded
  /\ run.hadArtifact
  /\ run.removed
  /\ run.path = "build"
  /\ Cardinality(DOMAIN adb.Actions) = 2

\* the last operation read, at the offset of the last write, the kind that
\* write wrote (for a byte string, as many bytes as were written)
ReadBack ==
  /\ stream.op = "read"
  /\ stream.kind # "none"
  /\ stream.got.kind = stream.kind
  /\ stream.got.at = stream.at
  /\ stream.kind = "string" => Len(stream.got.v) = Len(stream.value)

\* the bytes at the offset of the last write, least significant first, are
\* the integer written (for an int64, limb by limb)
LittleEndian ==
  LET byte(k) == stream.file[stream.at + k + 1]
      unsigned(v, k) == (v \div (256 ^ k)) % 256
  IN /\ stream.kind = "int32" =>
          \A k \in 0..3 : byte(k) = unsigned(stream.value, k)
     /\ stream.kind = "int64" =>
          \A l \in 0..3 : \A k \in 0..1 :
             byte(2 * l + k) = unsigned(stream.value[l + 1], k)

\* C13: for each kind (int32, int64, float64, byte string of known length), a
\* value written to a BinaryFileStream and read as the same kind after seeking
\* back to where it was written is the value written, and the bytes in the file
\* are in little-endian order.
C13_ReadGivesWhatWasWritten ==
  /\ ReadBack => (stream.got.ok /\ stream.got.v = stream.value)
  /\ LittleEndian

\* a negative int64 was written over older bytes, away from the start of the
\* file, and read back
C13_Int64ReadBack ==
  /\ ReadBack
  /\ stream.kind = "int64"
  /\ stream.value[4] < 0
  /\ stream.at > 0

\* C14: a configured action whose definition file is missing, unreadable or
\* not parsable is left out of the catalog and of the corpus, and the
\* initialisation still completes: after agent.Init no error is reported, the
\* catalog is the configured actions with a good definition, in order, and
\* the vocabulary and the index are those of their descriptions.
GoodActions == SelectSeq(work.actions,
                 LAMBDA n : work.files[n] \notin {NoFile, NoRead, BadYaml})
GoodDescriptions == [i \in 1..Len(GoodActions) |-> work.files[GoodActions[i]]]
C14_BadEntriesAreSkipped ==
  last = "init" =>
    /\ run.err = "none"
    /\ adb.ActionNames = GoodActions
    /\ adb.Vocabulary # Nil /\ adb.VectorDB # Nil
    /\ adb.Vocabulary.Terms = NewVocabulary(GoodDescriptions, adb.Language).Terms
    /\ Len(adb.VectorDB.DataPoints) = Len(GoodActions)
C14_BadEntryAbortsInit ==
  /\ last = "init"
  /\ Len(GoodActions) < Len(work.actions)
  /\ run.err = "error reading action file"

\* C15: when the cache folder of the generation cannot be created, or the
\* checksum file or the artifact cannot be opened, CacheInit returns an error
\* and agent.Init fails: the agent is not marked loaded; and an agent marked
\* loaded has both its Vocabulary and its Index.
C15_OpenFailureFailsInit ==
  /\ (last = "init" /\ (run.mkdirFailed \/ run.openFailed # "none"))
       => (run.err # "none" /\ ~agentLoaded)
  /\ agentLoaded => (adb # Nil /\ adb.Vocabulary # Nil /\ adb.VectorDB # Nil)
\* the folder could not be created, the index was built in memory and the
\* artifact could not be opened
C15_FolderMissingAtSave ==
  /\ last = "init" /\ run.mkdirFailed /\ run.path = "build"
  /\ run.err = "error creating vocabulary file"
  /\ adb.Vocabulary # Nil /\ ~agentLoaded

\* C16: QueryDescription returns the names of the matched actions: one per id
\* the similarity query returned, the i-th being the name of the action at the
\* i-th id.
C16_NamesOfMatches ==
  (last = "query" /\ ~result.panic) =>
    /\ Len(result.actions) = Len(result.indexes)
    /\ \A i \in 1..Len(result.indexes) :
         result.actions[i] = NameBytes(adb.ActionNames[result.indexes[i] + 1])
\* a query matched an action and returned its description
C16_DescriptionReturned ==
  /\ last = "query" /\ ~result.panic /\ Len(result.indexes) > 0
  /\ result.actions[1] = adb.Actions[adb.ActionNames[result.indexes[1] + 1]].Description
  /\ result.actions[1] # NameBytes(adb.ActionNames[result.indexes[1] + 1])

\* the corpus of the running agent is "restart the server", "shut down the
\* machine", "list running processes", in this order, and "reboot the box" was
\* queried with minimum score 0.0
ExampleAnswered ==
  /\ Answered
  /\ adb.ActionNames = ExampleActions
  /\ [i \in 1..3 |-> adb.Actions[ExampleActions[i]].Description]
       = <<DescRestart, DescShutDown, DescList>>
  /\ result.description = QueryReboot
  /\ result.minimumScore = RZero

\* C17 as stated: for this corpus and query every entry scores 0.0 and the
\* query returns the three entries in insertion order.
C17_AllScoresZero ==
  ExampleAnswered =>
    /\ \A i \in 0..2 : Score(i) = RZero
    /\ result.indexes = <<0, 1, 2>>

\* C17, amended: the stem "the" is a term shared by the query and the first
\* two descriptions, so their cosine similarities are 1/3 and 1/sqrt(13)
\* (squares 1/9 and 1/13) and only the third is 0.0; the query returns the
\* three entries in insertion order.
C17_TheIsShared ==
  ExampleAnswered =>
    /\ Score(0) = <<1, 9>>
    /\ Score(1) = <<1, 13>>
    /\ Score(2) = RZero
    /\ result.indexes = <<0, 1, 2>>
C17_ExampleQueried == ExampleAnswered /\ Len(adb.Vocabulary.Terms) = 9

\* what QueryDescription returns for the input of caller c when it runs alone
Alone(c) == QueryDescription(adb, calls[c].description, calls[c].minimumScore)

\* C18: once CacheInit has completed, the steps of QueryDescription and of the
\* similarity query leave the ActionDB (vocabulary terms, index entries) as it
\* is, a call's query vector stays the encoding of its input, and under every
\* interleaving of the callers a call ends with the result it has when it
\* runs alone.
C18_QueriesAreReadOnly ==
  /\ [](\A c \in Callers :
         /\ (calls[c].pc \in {"similar", "scan"} \/ (calls[c].pc = "done" /\ ~calls[c].panic))
              => calls[c].query = Alone(c).query
         /\ calls[c].pc = "done"
              => /\ calls[c].panic = Alone(c).panic
                 /\ ~calls[c].panic => /\ calls[c].similarEntries = Alone(c).indexes
                                       /\ calls[c].actions = Alone(c).actions)
  /\ [][agentLoaded => adb' = adb]_vars
\* a call has returned a match while another call, for another text, is in
\* the middle of its scan of the index
C18_TwoCallsInFlight ==
  /\ calls[1].pc = "done" /\ Len(calls[1].actions) > 0
  /\ calls[2].pc = "scan" /\ calls[2].i = 1 /\ calls[2].n = 2
  /\ calls[2].description # calls[1].description

\* C19: a build of CacheInit on the loaded agent is not guarded against the
\* calls in flight.  After the statement that publishes the new Vocabulary
\* the Index handle is still the one from before the build (or missing, on a
\* new ActionDB); the new Index is published without entries, then with
\* zero-valued entries that are filled one at a time.
C19_RebuildIsUnguarded ==
  /\ rebuild.pc = "index"
       => /\ adb.Vocabulary = NewVocabulary(rebuild.descriptions, adb.Language)
          /\ adb.VectorDB = rebuild.before
  /\ rebuild.pc = "make" => adb.VectorDB.DataPoints = <<>>
  /\ rebuild.pc = "fill"
       => \A k \in 1..Len(adb.VectorDB.DataPoints) :
            (k > rebuild.i) = (adb.VectorDB.DataPoints[k] = ZeroDataPoint)
\* a call encoded its text with the new Vocabulary and then met the index of
\* before the build
C19_SawPreviousIndex ==
  /\ calls[1].pc = "done" /\ ~calls[1].panic
  /\ calls[1].vocabularyAt = "index" /\ calls[1].indexAt = "index"
\* ... or no index
C19_SawMissingIndex ==
  /\ calls[1].pc = "done" /\ calls[1].panic
  /\ calls[1].vocabularyAt = "index" /\ calls[1].indexAt = "index"
  /\ adb.VectorDB = Nil
\* ... or an index whose entries were not all filled
C19_SawPartialIndex ==
  /\ calls[1].pc = "done" /\ calls[1].sawZero /\ calls[1].i = 1
  /\ calls[1].vocabularyAt \in {"index", "make", "fill"}
  /\ calls[1].indexAt = "fill"
C19_SawNewVocabularyOldIndex ==
  C19_SawPreviousIndex \/ C19_SawMissingIndex \/ C19_SawPartialIndex

\* the number of occurrences of the non-empty text t in s that can be taken
\* together without overlap
Occurrences(s, t) ==
  LET at == {i \in 1..Len(s) : HasPrefixAt(s, t, i)}
      apart(P) == \A i, j \in P : i < j => j - i >= Len(t)
      sizes == {Cardinality(P) : P \in {Q \in SUBSET at : apart(Q)}}
  IN CHOOSE n \in sizes : \A m \in sizes : m <= n

\* vector is the encoding of tokens over the vocabulary v: one component per
\* term, in term order, the occurrences of the term in the space-joined tokens
\* times its idf
Encodes(vector, v, tokens) ==
  /\ Len(vector) = Len(v.Terms)
  /\ \A i \in 1..Len(v.Terms) :
       LET n == Occurrences(Join(tokens, <<32>>), v.Terms[i].Token)
       IN vector[i] = Rat(n * v.Terms[i].IDF[1], v.Terms[i].IDF[2])

\* C20: the encoder returns one component per vocabulary term, in term order,
\* the i-th being the number of occurrences of term i as a substring of the
\* space-joined tokens multiplied by the idf of term i; so the query vector
\* of every answered query is, and so is the vector of every description of
\* the corpus a vocabulary was built from, whose length is the term count.
C20_EncoderCountsSubstrings ==
  /\ Answered =>
       Encodes(result.query, adb.Vocabulary,
               Tokenize(ToLower(result.description), adb.Language))
  /\ (last = "init" /\ run.err = "none" /\ run.path = "build") =>
       \A i \in 1..Len(adb.ActionNames) :
         Encodes(adb.VectorDB.DataPoints[i].Data, adb.Vocabulary,
                 Tokenize(ToLower(adb.Actions[adb.ActionNames[i]].Description),
                          adb.Language))
\* the vector of a description has a non-zero component for a term that is
\* none of the description's tokens: the term is inside a longer token
C20_TermInsideToken ==
  /\ last = "init" /\ run.err = "none" /\ run.path = "build"
  /\ \E i \in 1..Len(adb.ActionNames), k \in 1..Len(adb.Vocabulary.Terms) :
       /\ adb.VectorDB.DataPoints[i].Data[k] # RZero
       /\ adb.Vocabulary.Terms[k].Token
            \notin SeqRange(Tokenize(ToLower(adb.Actions[adb.ActionNames[i]].Description),
                                     adb.Language))

\* the number of descriptions of the corpus whose lower-cased text contains t
DfOf(t) ==
  Cardinality({i \in 1..Len(GoodDescriptions) : Contains(ToLower(GoodDescriptions[i]), t)})

\* C21: in a built vocabulary the idf of a term is N / df when df > 0 and 0
\* otherwise, N being the number of descriptions the build used and df the
\* number of them that contain the term as a substring; an empty corpus gives
\* no terms.
C21_IdfIsCorpusOverDf ==
  (last = "init" /\ run.err = "none" /\ run.path = "build") =>
    /\ \A i \in 1..Len(adb.Vocabulary.Terms) :
         adb.Vocabulary.Terms[i].IDF =
           IF DfOf(adb.Vocabulary.Terms[i].Token) > 0
           THEN Rat(Len(GoodActions), DfOf(adb.Vocabulary.Terms[i].Token))
           ELSE RZero
    /\ Len(GoodActions) = 0 => adb.Vocabulary.Terms = <<>>
\* a vocabulary was built from fewer descriptions than actions are configured
C21_BuiltWithSkippedAction ==
  /\ last = "init" /\ run.err = "none" /\ run.path = "build"
  /\ 0 < Len(GoodActions) /\ Len(GoodActions) < Len(work.actions)
  /\ Len(adb.Vocabulary.Terms) > 0

\* C22: Tokenize returns one stem per whitespace-separated field of the
\* lower-cased input, in input order; for a language tag the stemmer does not
\* know each stem is the field itself; the empty input gives no stems.
C22_UnknownLanguageIsIdentity ==
  tokenized.ran =>
    LET fields == Fields(ToLower(tokenized.text))
    IN /\ Len(tokenized.out) = Len(fields)
       /\ tokenized.language = "english" =>
            \A i \in 1..Len(fields) : tokenized.out[i] = Stem(fields[i], "english")
       /\ tokenized.language # "english" =>
            \A i \in 1..Len(fields) : tokenized.out[i] = fields[i]
       /\ tokenized.text = <<>> => tokenized.out = <<>>
\* a text of two fields was tokenized under a tag the stemmer does not know
C22_UnknownLanguageTokenized ==
  /\ tokenized.ran /\ tokenized.language = "klingon"
  /\ Len(tokenized.out) = 2 /\ tokenized.out[1] = <<>>


\* the index section as documented: the entry count, then per entry the id,
\* the vector length and that many values
DocumentedIndex(db) ==
  WriteInt32(Len(db.DataPoints))
    \o Flatten([i \in 1..Len(db.DataPoints) |->
                  WriteInt32(db.DataPoints[i].ID)
                    \o WriteInt32(Len(db.DataPoints[i].Data))
                    \o Flatten([j \in 1..Len(db.DataPoints[i].Data) |->
                                  WriteFloat64(db.DataPoints[i].Data[j])])])

\* C23: the artifact a rebuild writes is the term count, the terms (token
\* length, token bytes, idf), the entry count and the entries (id, vector
\* length, values) and nothing else, and the loader reads that layout back.
C23_ArtifactHasDocumentedLayout ==
  (InitSucceeded /\ run.path = "build")
    => /\ ActiveArtifact = VocabularySaveToBinaryStream(adb.Vocabulary)
                             \o DocumentedIndex(adb.VectorDB)
       /\ NewVectorDBFromBinaryStream(DocumentedIndex(adb.VectorDB), 0) # Nil
       /\ NewVectorDBFromBinaryStream(DocumentedIndex(adb.VectorDB), 0).DataPoints
            = adb.VectorDB.DataPoints

\* a rebuild wrote an artifact with at least one term and one entry
C23_ArtifactWritten ==
  /\ InitSucceeded /\ run.path = "build"
  /\ adb.VectorDB.VectorSize >= 1
  /\ Len(adb.VectorDB.DataPoints) >= 1


\* the whole of str matches pattern, '*' standing for any run of characters
\* and every other character for itself
RECURSIVE Glob(_, _)
Glob(pattern, str) ==
  IF pattern = <<>> THEN str = <<>>
  ELSE IF pattern[1] = STAR
       THEN \E i \in 0..Len(str) : Glob(Tail(pattern), SubSeq(str, i + 1, Len(str)))
  ELSE str # <<>> /\ pattern[1] = str[1] /\ Glob(Tail(pattern), Tail(str))

GlobAll(pattern, strings) ==
  LET whole(str) == Glob(pattern, str)
  IN SelectSeq(strings, whole)

\* C24: MatchAll returns, in input order, exactly the strings the whole of
\* which matches the pattern, '*' matching any possibly empty run and every
\* other character itself.
C24_MatchIsWholeStringGlob ==
  matched.ran => matched.out = GlobAll(matched.pattern, matched.strings)

\* a pattern with a wildcard selected one of two strings
C24_WildcardSelectedOne ==
  /\ matched.ran
  /\ \E i \in 1..Len(matched.pattern) : matched.pattern[i] = STAR
  /\ Len(matched.out) = 1


\* C25: after a successful CacheInit, built or loaded, the index holds as many
\* entries as ActionNames holds names, so every id of the similarity query is
\* a valid index into ActionNames, also after the configured list changed.
C25_EntriesMatchNames ==
  (InitSucceeded /\ adb.VectorDB # Nil)
    => Len(adb.VectorDB.DataPoints) = Len(adb.ActionNames)

\* a CacheInit loaded an artifact written for a configured list of another length
C25_LoadedAfterListChanged ==
  /\ InitSucceeded /\ run.path = "load"
  /\ adb.VectorDB # Nil
  /\ Len(adb.VectorDB.DataPoints) > Len(adb.ActionNames)


\* C26: for every configured list NewActionDB leaves as many names as map
\* keys, the rebuild does not index out of range, and a built index holds one
\* entry per name, the i-th with id i.
C26_NamesAndMapSameSize ==
  last = "init"
    => /\ Cardinality(DOMAIN adb.Actions) = Len(adb.ActionNames)
       /\ run.err # "index out of range"
       /\ (run.err = "none" /\ run.path = "build")
            => /\ Len(adb.VectorDB.DataPoints) = Len(adb.ActionNames)
               /\ \A i \in 1..Len(adb.ActionNames) : adb.VectorDB.DataPoints[i].ID = i - 1

\* a CacheInit took the rebuild branch for a list that names an action twice
C26_RebuiltRepeatedName ==
  /\ last = "init" /\ run.path = "build"
  /\ \E i, j \in 1..Len(adb.ActionNames) : i # j /\ adb.ActionNames[i] = adb.ActionNames[j]


\* C27: two CacheInit runs on the same catalog content compute the same
\* checksum, in whatever order the storage lists the changed action files.
C27_ChecksumIgnoresOrder ==
  [][(last = "init" /\ run.localChanges /\ last' = "init" /\ work' = work)
       => run'.current = run.current]_vars

\* a CacheInit over two changed action files found the record of the run
\* before it equal to its own checksum
C27_TwoChangedFilesKept ==
  /\ InitSucceeded /\ run.localChanges
  /\ Cardinality(Status \cap SeqRange(adb.ActionNames)) = 2
  /\ run.hadChecksum /\ ~run.invalidateCache


\* what the rebuild branch would write for a language from the catalog as it is
FreshArtifact(language) ==
  VocabularySaveToBinaryStream(BuildVocabulary(NewActionDB(work.actions, language)))
    \o VectorDBSaveToBinaryStream(
         BuildVectorDB(NewActionDB(work.actions, language),
                       BuildVocabulary(NewActionDB(work.actions, language))))

\* C28: a CacheInit with local changes that follows a CacheInit for another
\* language, and whose own language's artifact was not built from the files
\* as they are now, rebuilds that artifact although the shared checksum
\* record was already created or matched by the other run.
C28_EachLanguageRebuilds ==
  [][(/\ last = "init" /\ run.err = "none" /\ run.localChanges
      /\ last' = "init" /\ run'.err = "none"
      /\ adb'.Language # adb.Language
      /\ artifact[version][adb'.Language] # FreshArtifact(adb'.Language))
       => run'.path = "build"]_vars

\* after a run for english, a run for the other language found the shared
\* record equal to its checksum and an artifact of its own
C28_OtherLanguageMatched ==
  /\ InitSucceeded /\ run.localChanges /\ adb.Language = "klingon"
  /\ run.hadChecksum /\ ~run.invalidateCache /\ run.hadArtifact
  /\ artifact[version]["english"] # NoFile


\* C29: a CacheInit that fails while it saves a freshly built artifact leaves
\* no artifact file for a later CacheInit to find: every artifact file on
\* disk is a complete serialization.
C29_ArtifactsAreComplete ==
  \A v \in Versions, l \in Languages : ~Unreadable(artifact[v][l])

\* after a save that failed, a CacheInit found the artifact file and took the
\* load branch
C29_PartialArtifactLoaded ==
  /\ faults = 1
  /\ last = "init" /\ run.path = "load" /\ run.hadArtifact
  /\ Unreadable(ActiveArtifact)


\* C30: every call of DispatchInput returns in the end: the line it sends on
\* inputChannel is received, also after "exit" was dispatched and while the
\* input worker sends on outputChannel.
C30_DispatchReturns == (workers.front = "sending") ~> (workers.front = "idle")

\* a DispatchInput call is at its send while processInput has ended
C30_SendingToStoppedWorker ==
  workers.front = "sending" /\ workers.input = "stopped"

====
